---- MODULE Spec2Model ----
(***************************************************************************)
(* Verification model of the vector-index subsystem:                       *)
(*   - SearchEngine (id maps, tombstones, adaptive search, caches)         *)
(*   - HNSWPersistence (blob directory with latest/backup)                 *)
(*   - HnswDeltaOrchestrator (boot, delta reconciliation, snapshots)       *)
(* Scores and vector coordinates are fixed point, scaled by Scale.         *)
(***************************************************************************)
EXTENDS Integers, Sequences, FiniteSets, TLC

(***************************************************************************)
(* Bounds of the model.                                                    *)
(***************************************************************************)
MaxHnswId == 3
MaxK == 2
cacheSize == 1

Keys == {"a", "b"}
Queries == {"q1", " q1", "q2"}
Vecs == {<<100, 0>>, <<30, 40>>}
Scale == 100
LowScore == 65
alpha == 100
NoVal == "none"

(***************************************************************************)
(* Small helpers on functions with a finite domain (JS Map) and sequences. *)
(***************************************************************************)
Has(m, k) == k \in DOMAIN m

MapSet(m, k, v) == [x \in (DOMAIN m) \cup {k} |-> IF x = k THEN v ELSE m[x]]

MapDelete(m, k) == [x \in (DOMAIN m) \ {k} |-> m[x]]

EmptyMap == [x \in {} |-> NoVal]

Slice(s, n) == IF Len(s) <= n THEN s ELSE SubSeq(s, 1, n)

(***************************************************************************)
(* Vector arithmetic.                                                      *)
(***************************************************************************)
ISqrt(n) == CHOOSE r \in 0..n : r * r <= n /\ (r + 1) * (r + 1) > n

Dot(v, w) == v[1] * w[1] + v[2] * w[2]

\* l2Normalize: v / sqrt(sum of squares), the zero vector stays zero
l2Normalize(v) ==
  LET norm == ISqrt(Dot(v, v))
  IN IF norm = 0 THEN v ELSE <<(v[1] * Scale) \div norm, (v[2] * Scale) \div norm>>

\* exactCosine: plain dot product of two pre-normalized vectors
exactCosine(v, w) == Dot(v, w) \div Scale

\* the external embedding model: one fixed raw vector per (trimmed) query
Embed(q) == IF q = "q1" THEN <<200, 0>> ELSE <<0, 50>>

\* String.prototype.trim on the query strings of the model
Trim(q) == IF q = " q1" THEN "q1" ELSE q

\* the chunk keys of the model, 'parent:chunkIndex'
ChunkKeys == {"a:0", "a:1", "b:0"}

\* String.prototype.split(':')[0] on the chunk keys of the model
ParentOf(id) == IF id = "b:0" THEN "b" ELSE "a"

\* parseNodeId: a key with a ':' is a chunk of the parent before the ':'
parseNodeId(id) ==
  IF id \in ChunkKeys
  THEN [isChunk |-> TRUE, parentId |-> ParentOf(id)]
  ELSE [isChunk |-> FALSE, parentId |-> id]

(***************************************************************************)
(* HNSW graph, as far as the engine uses it: a map id -> vector and an     *)
(* exact top-K by similarity (ties: lower id first).                       *)
(***************************************************************************)
RECURSIVE RankIds(_, _, _)
RankIds(nodes, ids, qv) ==
  IF ids = {} THEN <<>>
  ELSE LET best == CHOOSE i \in ids :
                     \A j \in ids :
                        \/ Dot(nodes[i], qv) > Dot(nodes[j], qv)
                        \/ (Dot(nodes[i], qv) = Dot(nodes[j], qv) /\ i <= j)
       IN <<[id |-> best, score |-> Dot(nodes[best], qv) \div Scale]>>
            \o RankIds(nodes, ids \ {best}, qv)

searchKNN(nodes, qv, K) == Slice(RankIds(nodes, DOMAIN nodes, qv), K)

HnswAddPoint(nodes, id, v) == IF Has(nodes, id) THEN nodes ELSE MapSet(nodes, id, v)

(***************************************************************************)
(* SearchEngine state: one record, fields named as in the class.           *)
(***************************************************************************)
NewEngine ==
  [ embeddings     |-> EmptyMap,
    hnswIndex      |-> EmptyMap,
    noteIdToHnswId |-> EmptyMap,
    hnswIdToNoteId |-> EmptyMap,
    nextHnswId     |-> 0,
    isReady        |-> FALSE,
    tombstones     |-> {},
    queryCache     |-> <<>>,
    resultsCache   |-> <<>> ]

\* SearchEngine.initialize: isReady is set once the embedding service is up
EngineInitialize(E, ok) == IF E.isReady \/ ~ok THEN E ELSE [E EXCEPT !.isReady = TRUE]

\* a removal that also deletes the key from the maps
removePoint_DropsMaps(E, noteId) ==
  IF Has(E.noteIdToHnswId, noteId)
  THEN [E EXCEPT !.tombstones = @ \cup {E.noteIdToHnswId[noteId]},
                 !.hnswIdToNoteId = MapDelete(@, E.noteIdToHnswId[noteId]),
                 !.noteIdToHnswId = MapDelete(@, noteId),
                 !.embeddings = MapDelete(@, noteId)]
  ELSE E

\* SearchEngine.removePoint: tombstone the key's current id, keep the maps
removePoint(E, noteId) ==
  IF Has(E.noteIdToHnswId, noteId)
  THEN [E EXCEPT !.tombstones = @ \cup {E.noteIdToHnswId[noteId]}]
  ELSE E

\* SearchEngine.addPoint up to its await: tombstone the old id, take a new id
addPointBegin(E, row) ==
  LET E1 == IF Has(E.noteIdToHnswId, row.noteId) THEN removePoint(E, row.noteId) ELSE E
  IN [E1 EXCEPT !.nextHnswId = @ + 1]

\* what the suspended addPoint call carries across its await
addPointPending(E, row) ==
  [ noteId   |-> row.noteId,
    content  |-> row.content,
    vector   |-> l2Normalize(row.vecData),
    newId    |-> E.nextHnswId,
    replaced |-> Has(E.noteIdToHnswId, row.noteId) ]

\* SearchEngine.addPoint after its await: graph insert done (ok) or thrown
addPointEnd(E, p, ok) ==
  IF ~ok THEN E
  ELSE [E EXCEPT !.hnswIndex      = HnswAddPoint(@, p.newId, p.vector),
                 !.noteIdToHnswId = MapSet(@, p.noteId, p.newId),
                 !.hnswIdToNoteId = MapSet(@, p.newId, p.noteId),
                 !.embeddings     = MapSet(@, p.noteId,
                                      [noteId |-> p.noteId, content |-> p.content,
                                       embedding |-> p.vector])]

(***************************************************************************)
(* The caches: JS Maps in insertion order, as sequences of <<key, value>>. *)
(***************************************************************************)
CacheHas(c, k) == \E i \in 1..Len(c) : c[i][1] = k

CacheGet(c, k) == c[CHOOSE i \in 1..Len(c) : c[i][1] = k][2]

\* Map.set keeps the position of an existing key, appends a new one
CacheSet(c, k, v) ==
  IF CacheHas(c, k)
  THEN [i \in 1..Len(c) |-> IF c[i][1] = k THEN <<k, v>> ELSE c[i]]
  ELSE Append(c, <<k, v>>)

\* set, then delete the first key of the map when the size exceeds cacheSize
CachePut_NoEvict(c, k, v) == CacheSet(c, k, v)

CachePut(c, k, v) ==
  LET c1 == CacheSet(c, k, v)
  IN IF Len(c1) > cacheSize THEN Tail(c1) ELSE c1

(***************************************************************************)
(* SearchEngine.search, the steps after the query vector is known.         *)
(***************************************************************************)
RECURSIVE DropTombstoned(_, _)
DropTombstoned(rs, tomb) ==
  IF rs = <<>> THEN <<>>
  ELSE IF Head(rs).id \in tomb THEN DropTombstoned(Tail(rs), tomb)
       ELSE <<Head(rs)>> \o DropTombstoned(Tail(rs), tomb)

\* the condition of the retry, on the filtered results of the first search
lowRecall(results, limit) ==
  Len(results) > 0 /\ (results[1].score < LowScore \/ Len(results) < limit)

adaptiveSearch(E, qv, limit) ==
  LET results == DropTombstoned(searchKNN(E.hnswIndex, qv, limit), E.tombstones)
  IN IF lowRecall(results, limit)
     THEN DropTombstoned(searchKNN(E.hnswIndex, qv, limit * 2), E.tombstones)
     ELSE results

\* rerank + fusion: candidates without a mapped key or metadata are dropped
RECURSIVE Rerank(_, _, _)
Rerank(E, rs, qv) ==
  IF rs = <<>> THEN <<>>
  ELSE LET h == Head(rs)
       IN IF ~Has(E.hnswIdToNoteId, h.id) THEN Rerank(E, Tail(rs), qv)
          ELSE LET noteId == E.hnswIdToNoteId[h.id]
               IN IF ~Has(E.embeddings, noteId) THEN Rerank(E, Tail(rs), qv)
                  ELSE <<[noteId |-> parseNodeId(noteId).parentId,
                          score  |-> (alpha * exactCosine(qv, E.embeddings[noteId].embedding)
                                       + (Scale - alpha) * 0) \div Scale]>>
                       \o Rerank(E, Tail(rs), qv)

\* a reduce that pushes every candidate, whatever its parent
RECURSIVE Dedup_KeepsAll(_, _)
Dedup_KeepsAll(acc, rs) ==
  IF rs = <<>> THEN acc
  ELSE Dedup_KeepsAll(Append(acc, Head(rs)), Tail(rs))

\* reduce into a Map by parent id, a strictly better score replaces in place
RECURSIVE Dedup(_, _)
Dedup(acc, rs) ==
  IF rs = <<>> THEN acc
  ELSE LET it == Head(rs)
           hit == {i \in 1..Len(acc) : acc[i].noteId = it.noteId}
       IN IF hit = {} THEN Dedup(Append(acc, it), Tail(rs))
          ELSE LET i == CHOOSE x \in hit : TRUE
               IN IF it.score > acc[i].score
                  THEN Dedup([acc EXCEPT ![i] = it], Tail(rs))
                  ELSE Dedup(acc, Tail(rs))

\* Array.prototype.sort by descending score (stable)
RECURSIVE InsertDesc(_, _)
InsertDesc(sorted, it) ==
  IF sorted = <<>> THEN <<it>>
  ELSE IF Head(sorted).score >= it.score
       THEN <<Head(sorted)>> \o InsertDesc(Tail(sorted), it)
       ELSE <<it>> \o sorted

RECURSIVE SortDesc(_)
SortDesc(rs) ==
  IF rs = <<>> THEN <<>>
  ELSE InsertDesc(SortDesc(SubSeq(rs, 1, Len(rs) - 1)), rs[Len(rs)])

\* steps 3..5 of search: the list computed from the index for (qv, limit)
ComputeResults(E, qv, limit) ==
  LET kForRerank == limit * 5
      hnswResults == adaptiveSearch(E, qv, kForRerank)
      finalResults == Rerank(E, Slice(hnswResults, kForRerank), qv)
  IN Slice(SortDesc(Dedup(<<>>, finalResults)), limit)

(***************************************************************************)
(* State.                                                                  *)
(*   engine  : the SearchEngine record                                     *)
(*   search  : the one search call in flight (its position and its result) *)
(*   adder   : the one client addPoint call in flight                      *)
(*   dir     : the snapshot directory, blob name -> content                *)
(*   embeddingsTable, notesTable : the row store                           *)
(*   store .. snapshotInterval   : the fields of HnswDeltaOrchestrator     *)
(*   timers  : debounce timeouts set and not yet fired                     *)
(*   ticks   : subscription callbacks delivered so far                     *)
(*   passes  : the processDelta calls, each with its position              *)
(*   snaps   : the triggerSnapshot calls, each with its position           *)
(*   boot    : the initialize / forceFullRebuild call in flight            *)
(*   hist    : what has happened so far, for the statements only           *)
(***************************************************************************)
VARIABLES engine, search, adder, dir, embeddingsTable, notesTable,
          store, subscribed, knownEmbeddingIds, snapshotCounter,
          isProcessing, pendingDeltas, snapshotInterval,
          timers, ticks, passes, snaps, boot, hist

vars == <<engine, search, adder, dir, embeddingsTable, notesTable,
          store, subscribed, knownEmbeddingIds, snapshotCounter,
          isProcessing, pendingDeltas, snapshotInterval,
          timers, ticks, passes, snaps, boot, hist>>

\* the variables the engine's client actions leave alone
otherE == <<dir, embeddingsTable, notesTable,
            store, subscribed, knownEmbeddingIds, snapshotCounter,
            isProcessing, pendingDeltas, snapshotInterval,
            timers, ticks, passes, snaps, boot, hist>>

Contents == {1, 2}

Rows == [noteId : Keys, content : Contents, vecData : Vecs]

EngineRows == {r \in Rows : r.content = 1}

IdleSearch == [pc |-> "idle", query |-> NoVal, limit |-> 0, result |-> <<>>, src |-> NoVal]

IdleAdder == [pc |-> "idle"]

PassIds == {1, 2}

SnapIds == {"periodic", "manual", "pass1", "pass2", "boot"}

\* the slot of the threshold snapshot that pass p awaits
SlotOf(p) == IF p = 1 THEN "pass1" ELSE "pass2"

IdlePass == [pc |-> "idle"]

IdleSnap == [pc |-> "idle"]

IdleBoot == [pc |-> "idle"]

NoHist ==
  [ watch         |-> "none",  \* the statements observed: "snapshots", "passes", ..
    attempted     |-> FALSE,   \* a snapshot got as far as its rename
    pre           |-> EmptyMap,\* the directory when the hook's snapshot call began
    preCounter    |-> 0,       \* snapshotCounter when that call began
    readClean     |-> FALSE,   \* no store mutation since the last pass read it
    synced        |-> FALSE,   \* a pass completed, no store mutation since its read
    missedTick    |-> FALSE,   \* a tick came during a pass, no pass started since
    removed       |-> {},      \* orphans removed by a pass, store unchanged since
    served        |-> FALSE,   \* a pass started after a tick that came during a pass
    writes        |-> 0,       \* writes to the row store so far
    boots         |-> 0,       \* initialize and forceFullRebuild calls so far
    gc            |-> [keepCount |-> -1],  \* the last gcOldSnapshots call
    io            |-> [op |-> "none"],     \* the last renameFile / removeFile call
    restart       |-> [done |-> FALSE],    \* the page reload, and what it found
    owed          |-> FALSE,               \* a tick came, no pass started since
    threw         |-> FALSE,               \* a row query of a pass has thrown
    evicted       |-> FALSE,               \* a cache entry has been evicted
    calls         |-> 0,    \* add and remove calls of passes since the last reset
    renamedTo     |-> NoVal,               \* the target of the last renameFile
    answered      |-> 0,    \* the ticks delivered when the last pass read the store
    again         |-> FALSE,   \* a pass read the store with no tick since the last
    lru           |-> [q |-> <<>>, r |-> <<>>, outQ |-> NoVal, dueQ |-> NoVal,
                       outR |-> NoVal, dueR |-> NoVal],   \* cache keys by last use
    hashes        |-> EmptyMap,   \* HnswSyncOrchestrator.knownEmbeddingHashes
    indexStore    |-> [invertedIndex |-> EmptyMap, docTokenMetadata |-> EmptyMap,
                       docStore |-> EmptyMap] ]  \* the lexical IndexStore

\* the history at the start of a run that observes the statements w
Watch(w) == [NoHist EXCEPT !.watch = w]

\* the history after a step: h2 when the run observes w, else h0
Observed(w, h0, h2) == IF h0.watch = w THEN h2 ELSE h0

\* the engine as constructed, no call in flight
FreshEngine ==
  /\ engine = NewEngine
  /\ search = IdleSearch
  /\ adder = IdleAdder

\* the orchestrator as constructed
FreshOrchestrator ==
  /\ store = FALSE
  /\ subscribed = FALSE
  /\ knownEmbeddingIds = {}
  /\ snapshotCounter = 0
  /\ isProcessing = FALSE
  /\ pendingDeltas = FALSE
  /\ snapshotInterval = FALSE
  /\ timers = 0
  /\ ticks = 0
  /\ passes = [p \in PassIds |-> IdlePass]
  /\ snaps = [s \in SnapIds |-> IdleSnap]
  /\ boot = IdleBoot

\* the orchestrator after initialize() on an empty store
FreshOrchestrator_Running ==
  /\ store = TRUE
  /\ subscribed = TRUE
  /\ knownEmbeddingIds = {}
  /\ snapshotCounter = 0
  /\ isProcessing = FALSE
  /\ pendingDeltas = FALSE
  /\ snapshotInterval = TRUE
  /\ timers = 0
  /\ ticks = 0
  /\ passes = [p \in PassIds |-> IdlePass]
  /\ snaps = [s \in SnapIds |-> IdleSnap]
  /\ boot = IdleBoot

InitEngine ==
  /\ FreshEngine
  /\ FreshOrchestrator
  /\ hist = Watch("none")
  /\ dir = EmptyMap
  /\ embeddingsTable = EmptyMap
  /\ notesTable = {}

(***************************************************************************)
(* Client calls on the engine.                                             *)
(***************************************************************************)
\* SearchEngine.initialize called on its own (service start-up)
Initialize ==
  /\ ~engine.isReady
  /\ \E ok \in BOOLEAN : engine' = EngineInitialize(engine, ok)
  /\ UNCHANGED <<search, adder, otherE>>

\* addPoint, from the call to the await on hnswIndex.addPoint
AddPointOf(rows) ==
  /\ adder.pc = "idle"
  /\ engine.isReady
  /\ engine.nextHnswId < MaxHnswId
  /\ \E row \in rows :
       /\ engine' = addPointBegin(engine, row)
       /\ adder' = [pc |-> "insert", pend |-> addPointPending(engine, row)]
  /\ UNCHANGED <<search, otherE>>

AddPointCall == AddPointOf(EngineRows)

\* addPoint before initialize: warns and returns
AddPointNotReady ==
  /\ adder.pc = "idle"
  /\ ~engine.isReady
  /\ UNCHANGED <<engine, search, adder, otherE>>

\* addPoint, resumed after the await (insert done or thrown and caught)
AddPointResume ==
  /\ adder.pc = "insert"
  /\ \E ok \in BOOLEAN : engine' = addPointEnd(engine, adder.pend, ok)
  /\ adder' = IdleAdder
  /\ UNCHANGED <<search, otherE>>

RemovePointCall ==
  /\ \E k \in Keys : engine' = removePoint(engine, k)
  /\ engine' # engine
  /\ UNCHANGED <<search, adder, otherE>>

\* search(query, limit), up to `await this.initialize()`
SearchCall ==
  /\ search.pc = "idle"
  /\ \E q \in Queries, k \in 1..MaxK :
       search' = [pc |-> "init", query |-> q, limit |-> k, result |-> <<>>, src |-> NoVal]
  /\ UNCHANGED <<engine, adder, otherE>>

\* search from the query vector on: compute, store in resultsCache, return
SearchFinish(E, qv) ==
  LET sortedResults == ComputeResults(E, qv, search.limit)
  IN /\ engine' = [E EXCEPT !.resultsCache = CachePut(@, Trim(search.query), sortedResults)]
     /\ search' = [search EXCEPT !.pc = "done", !.result = sortedResults, !.src = "index"]

\* search after initialize: empty check, results cache, query cache
SearchStart ==
  /\ search.pc = "init"
  /\ \E ok \in BOOLEAN :
       LET E == EngineInitialize(engine, ok)
           trimmedQuery == Trim(search.query)
       IN IF trimmedQuery = "" \/ DOMAIN E.embeddings = {}
          THEN /\ engine' = E
               /\ search' = [search EXCEPT !.pc = "done", !.result = <<>>, !.src = "empty"]
          ELSE IF CacheHas(E.resultsCache, trimmedQuery)
          THEN /\ engine' = E
               /\ search' = [search EXCEPT !.pc = "done", !.src = "cache",
                               !.result = Slice(CacheGet(E.resultsCache, trimmedQuery), search.limit)]
          ELSE IF CacheHas(E.queryCache, trimmedQuery)
          THEN SearchFinish(E, CacheGet(E.queryCache, trimmedQuery))
          ELSE /\ engine' = E
               /\ search' = [search EXCEPT !.pc = "embed"]
  /\ UNCHANGED <<adder, otherE>>

\* search resumed after `await embeddingService.embed`, or the embed threw
SearchEmbedded ==
  /\ search.pc = "embed"
  /\ \E ok \in BOOLEAN :
       IF ok
       THEN LET queryVector == l2Normalize(Embed(Trim(search.query)))
                E == [engine EXCEPT !.queryCache = CachePut(@, Trim(search.query), queryVector)]
            IN /\ SearchFinish(E, queryVector)
               /\ hist' = Observed("caches", hist,
                    [hist EXCEPT !.evicted = @ \/
                       Len(CacheSet(engine.queryCache, Trim(search.query), queryVector)) > cacheSize])
       ELSE /\ engine' = engine
            /\ search' = [search EXCEPT !.pc = "done", !.result = <<>>, !.src = "error"]
            /\ hist' = hist
  /\ UNCHANGED <<adder, dir, embeddingsTable, notesTable,
                 store, subscribed, knownEmbeddingIds, snapshotCounter,
                 isProcessing, pendingDeltas, snapshotInterval,
                 timers, ticks, passes, snaps, boot>>

\* the caller takes the result
SearchReturn ==
  /\ search.pc = "done"
  /\ search' = IdleSearch
  /\ UNCHANGED <<engine, adder, otherE>>

NextEngine ==
  \/ Initialize
  \/ AddPointCall
  \/ AddPointNotReady
  \/ AddPointResume
  \/ RemovePointCall
  \/ SearchCall
  \/ SearchStart
  \/ SearchEmbedded
  \/ SearchReturn

SpecEngine == InitEngine /\ [][NextEngine]_vars

(***************************************************************************)
(* Claims about the engine.                                                *)
(***************************************************************************)
\* the search call produces its result in this step
SearchAnswers == search.pc # "done" /\ search'.pc = "done"

\* key k is mapped to an internal id that is tombstoned
Tombstoned(E, k) == Has(E.noteIdToHnswId, k) /\ E.noteIdToHnswId[k] \in E.tombstones

\* C1: tombstone safety - no result of a search, cached or computed, names
\* a key whose current internal id is in the tombstone set.
C1_TombstoneSafety ==
  [][SearchAnswers =>
       \A i \in 1..Len(search'.result) : ~Tombstoned(engine', search'.result[i].noteId)]_vars

\* an upsert of an existing key is between its tombstone and its map update
MidUpsert ==
  /\ adder.pc = "insert"
  /\ adder.pend.replaced
  /\ Tombstoned(engine, adder.pend.noteId)
  /\ ~Has(engine.hnswIdToNoteId, adder.pend.newId)

\* C5: search/upsert serializability - a search that reads the index never
\* reads it while a replaced key has its old id tombstoned and its new id
\* not yet mapped.
C5_SearchUpsertSerializable ==
  [][(SearchAnswers /\ search'.src = "index") => ~MidUpsert]_vars

\* a step of addPoint or removePoint that changes the index: the tombstone
\* set, the graph or one of the id maps
IndexMutated ==
  \/ engine'.tombstones # engine.tombstones
  \/ engine'.hnswIndex # engine.hnswIndex
  \/ engine'.noteIdToHnswId # engine.noteIdToHnswId
  \/ engine'.hnswIdToNoteId # engine.hnswIdToNoteId

\* C11: cache invalidation on mutation - right after a step of addPoint or
\* removePoint that changes the index, queryCache and resultsCache are empty.
C11_CacheInvalidation ==
  [][IndexMutated => (engine'.queryCache = <<>> /\ engine'.resultsCache = <<>>)]_vars

(***************************************************************************)
(* The other mutators of the engine, called one after the other by a       *)
(* client that awaits each call.                                           *)
(***************************************************************************)
\* SearchEngine.addChunkPoint up to its await: take a new id
addChunkPointBegin(E) == [E EXCEPT !.nextHnswId = @ + 1]

\* what the suspended addChunkPoint call carries across its await
addChunkPointPending(E, chunkId, vector, metadata) ==
  [ noteId   |-> chunkId,
    vector   |-> l2Normalize(vector),
    newId    |-> E.nextHnswId,
    metadata |-> metadata ]

\* SearchEngine.addChunkPoint after its await: maps set, metadata if given
addChunkPointEnd(E, p, ok) ==
  IF ~ok THEN E
  ELSE [E EXCEPT !.hnswIndex      = HnswAddPoint(@, p.newId, p.vector),
                 !.noteIdToHnswId = MapSet(@, p.noteId, p.newId),
                 !.hnswIdToNoteId = MapSet(@, p.newId, p.noteId),
                 !.embeddings     = IF p.metadata
                                    THEN MapSet(@, p.noteId,
                                           [noteId |-> p.noteId, content |-> 0,
                                            embedding |-> p.vector])
                                    ELSE @]

\* SearchEngine.clear
clear(E) ==
  [E EXCEPT !.embeddings     = EmptyMap,
            !.hnswIndex      = EmptyMap,
            !.noteIdToHnswId = EmptyMap,
            !.hnswIdToNoteId = EmptyMap,
            !.nextHnswId     = 0,
            !.tombstones     = {},
            !.queryCache     = <<>>,
            !.resultsCache   = <<>>]

\* SearchEngine.buildIndex: the graph built from the (id, vector) pairs
RECURSIVE buildIndex(_, _)
buildIndex(nodes, embeddingData) ==
  IF embeddingData = <<>> THEN nodes
  ELSE buildIndex(HnswAddPoint(nodes, Head(embeddingData).id, Head(embeddingData).vector),
                  Tail(embeddingData))

\* the forEach of loadEmbeddings: ids from nextHnswId in row order
RECURSIVE LoadRows(_, _)
LoadRows(E, rows) ==
  IF rows = <<>> THEN E
  ELSE LET row == Head(rows)
           hnswId == E.nextHnswId
       IN LoadRows([E EXCEPT !.nextHnswId     = @ + 1,
                             !.noteIdToHnswId = MapSet(@, row.noteId, hnswId),
                             !.hnswIdToNoteId = MapSet(@, hnswId, row.noteId),
                             !.embeddings     = MapSet(@, row.noteId,
                                                  [noteId |-> row.noteId,
                                                   content |-> row.content,
                                                   embedding |-> row.vecData])],
                    Tail(rows))

\* SearchEngine.loadEmbeddings: clear, map every row, build the graph (ok)
\* or have the build throw
loadEmbeddings(E, rows, ok) ==
  LET E1 == LoadRows(clear(E), rows)
      hnswData == [i \in 1..Len(rows) |->
                     [id |-> E1.noteIdToHnswId[rows[i].noteId], vector |-> rows[i].vecData]]
  IN IF ok THEN [E1 EXCEPT !.hnswIndex = buildIndex(@, hnswData)] ELSE E1

(***************************************************************************)
(* HNSWPersistence over the blob directory.  A storage call either works   *)
(* ("none") or hits an I/O error before it touched anything ("early"),     *)
(* after getFileHandle(.., {create: true}) made the target ("mid"), or     *)
(* after the target was written ("late").                                  *)
(***************************************************************************)
VERSION == "1.0.0"

\* a zero-length file, and the value that stands for "no such blob"
EmptyFile == [nodes |-> EmptyMap, version |-> "empty-file"]

Absent == [nodes |-> EmptyMap, version |-> "absent"]

Faults == {"none", "early", "mid", "late"}

\* serializeGraph: the graph with the metadata header
serializeGraph(index) == [nodes |-> index, version |-> VERSION]

Complete(blob) == blob # EmptyFile

\* persistGraph(index, fileName): create the file, write, close, checksum
persistGraph(d, fileName, data, fault) ==
  CASE fault = "none"  -> MapSet(d, fileName, data)
    [] fault = "early" -> d
    [] fault = "mid"   -> IF Has(d, fileName) THEN d ELSE MapSet(d, fileName, EmptyFile)
    [] fault = "late"  -> MapSet(d, fileName, data)

\* renameFile(oldName, newName): copy to the new name, then remove the old
\* one; a missing source is not an error
renameFile(d, oldName, newName, fault) ==
  IF ~Has(d, oldName) THEN d
  ELSE CASE fault = "none"  -> MapDelete(MapSet(d, newName, d[oldName]), oldName)
         [] fault = "early" -> d
         [] fault = "mid"   -> IF Has(d, newName) THEN d ELSE MapSet(d, newName, EmptyFile)
         [] fault = "late"  -> MapSet(d, newName, d[oldName])

\* the faults that can show in a rename: none when the source is missing
RenameFaults(d, oldName) == IF Has(d, oldName) THEN Faults ELSE {"none"}

\* gcOldSnapshots(0): remove every blob but latest and backup; a removal
\* that fails is skipped
GcCandidates(d) == DOMAIN d \ {"latest", "backup"}

gcOldSnapshots(d, removed) == [x \in DOMAIN d \ removed |-> d[x]]

(***************************************************************************)
(* HnswDeltaOrchestrator.triggerSnapshot, one step per awaited call.       *)
(***************************************************************************)
otherS == <<search, adder, embeddingsTable, notesTable,
            store, subscribed, knownEmbeddingIds,
            isProcessing, pendingDeltas, snapshotInterval,
            timers, ticks, passes, boot>>

\* the call up to its first await: nothing to snapshot, or start the rename
SnapStart(E) ==
  [pc |-> IF DOMAIN E.hnswIndex = {} THEN "returned" ELSE "rename",
   data |-> Absent]

SnapBegin(s) ==
  /\ snaps[s].pc = "idle"
  /\ snaps' = [snaps EXCEPT ![s] = SnapStart(engine)]

\* renameFile('latest', 'backup') is over (its error is swallowed);
\* persistGraph serializes the index as it is now
SnapRename(s) ==
  /\ snaps[s].pc = "rename"
  /\ \E fault \in RenameFaults(dir, "latest") :
       /\ dir' = renameFile(dir, "latest", "backup", fault)
       /\ hist' = Observed("snapshots", hist, [hist EXCEPT !.attempted = TRUE])
  /\ snaps' = [snaps EXCEPT ![s].pc = "persist",
                            ![s].data = serializeGraph(engine.hnswIndex)]
  /\ UNCHANGED <<engine, snapshotCounter, otherS>>

\* a persist that succeeds and leaves the counter as it was
SnapPersist_KeepsCounter(s) ==
  /\ snaps[s].pc = "persist"
  /\ \E fault \in Faults :
       /\ dir' = persistGraph(dir, "latest", snaps[s].data, fault)
       /\ snapshotCounter' = snapshotCounter
       /\ snaps' = [snaps EXCEPT ![s].pc = IF fault = "none" THEN "gc" ELSE "rollback"]
       /\ hist' = hist
  /\ UNCHANGED <<engine, otherS>>

\* persistGraph(hnswIndex, 'latest') is over: reset the counter, or roll back
SnapPersist(s) ==
  /\ snaps[s].pc = "persist"
  /\ \E fault \in Faults :
       /\ dir' = persistGraph(dir, "latest", snaps[s].data, fault)
       /\ IF fault = "none"
          THEN /\ snapshotCounter' = 0
               /\ snaps' = [snaps EXCEPT ![s].pc = "gc"]
               /\ hist' = Observed("counter", hist, [hist EXCEPT !.calls = 0])
          ELSE /\ snapshotCounter' = snapshotCounter
               /\ snaps' = [snaps EXCEPT ![s].pc = "rollback"]
               /\ hist' = hist
  /\ UNCHANGED <<engine, otherS>>

\* gcOldSnapshots(0) is over, the call returns
SnapGc(s) ==
  /\ snaps[s].pc = "gc"
  /\ \E removed \in SUBSET GcCandidates(dir) : dir' = gcOldSnapshots(dir, removed)
  /\ snaps' = [snaps EXCEPT ![s].pc = "returned"]
  /\ UNCHANGED <<engine, snapshotCounter, hist, otherS>>

\* renameFile('backup', 'latest') is over (its error is logged), the call
\* logs the persist error and returns
SnapRollback(s) ==
  /\ snaps[s].pc = "rollback"
  /\ \E fault \in RenameFaults(dir, "backup") :
       /\ dir' = renameFile(dir, "backup", "latest", fault)
       /\ hist' = hist
  /\ snaps' = [snaps EXCEPT ![s].pc = "returned"]
  /\ UNCHANGED <<engine, snapshotCounter, otherS>>

\* a snapshot nobody awaits (timer, hook) is done
SnapReturn(s) ==
  /\ s \in {"periodic", "manual"}
  /\ snaps[s].pc = "returned"
  /\ snaps' = [snaps EXCEPT ![s] = IdleSnap]
  /\ UNCHANGED <<engine, dir, snapshotCounter, hist, otherS>>

\* triggerSnapshot('manual') from the hook
ManualSnapshot ==
  /\ SnapBegin("manual")
  /\ hist' = Observed("snapshots", hist,
                     [hist EXCEPT !.pre = dir, !.preCounter = snapshotCounter])
  /\ UNCHANGED <<engine, dir, snapshotCounter, otherS>>

SnapRenameStep == \E s \in SnapIds : SnapRename(s)

SnapPersistStep == \E s \in SnapIds : SnapPersist(s)

SnapGcStep == \E s \in SnapIds : SnapGc(s)

SnapRollbackStep == \E s \in SnapIds : SnapRollback(s)

SnapReturnStep == \E s \in SnapIds : SnapReturn(s)

(***************************************************************************)
(* The snapshot protocol on its own: the directory as an earlier session   *)
(* (or a crash between rename and persist) left it, an engine that is      *)
(* being filled, and manual snapshots one after the other.                 *)
(***************************************************************************)
OldBlobs == {serializeGraph(0 :> <<100, 0>>), serializeGraph(0 :> <<60, 80>>)}

InitDirs ==
  {d \in UNION {[names -> OldBlobs] : names \in SUBSET {"latest", "backup", "main-index"}} :
     /\ Has(d, "latest") => d["latest"] = serializeGraph(0 :> <<100, 0>>)
     /\ Has(d, "backup") => d["backup"] = serializeGraph(0 :> <<60, 80>>)
     /\ Has(d, "main-index") => d["main-index"] = serializeGraph(0 :> <<100, 0>>)}

InitSnap ==
  /\ FreshEngine
  /\ FreshOrchestrator
  /\ hist = Watch("snapshots")
  /\ dir \in InitDirs
  /\ embeddingsTable = EmptyMap
  /\ notesTable = {}

\* the engine is filled with versions of one note
SnapAddPoint == AddPointOf({r \in EngineRows : r.noteId = "a"})

NextSnap ==
  \/ Initialize
  \/ SnapAddPoint
  \/ AddPointResume
  \/ ManualSnapshot
  \/ SnapRenameStep
  \/ SnapPersistStep
  \/ SnapGcStep
  \/ SnapRollbackStep
  \/ SnapReturnStep

SpecSnap == InitSnap /\ [][NextSnap]_vars

(***************************************************************************)
(* Claims about the snapshot protocol.                                     *)
(***************************************************************************)
\* call s returns in this step
BlobOf(d, name) == IF Has(d, name) THEN d[name] ELSE Absent

\* the hook's triggerSnapshot call returns after its rollback
ManualFailed == snaps["manual"].pc = "rollback" /\ snaps'["manual"].pc = "returned"

\* C3: snapshot atomicity - when persistGraph('latest') failed inside
\* triggerSnapshot, the call returns with 'latest' as it was before the call
\* (absent if it was absent), 'backup' absent or equal to the prior 'latest',
\* and the pending change counter unchanged.
C3_SnapshotAtomicity ==
  [][ManualFailed =>
       /\ BlobOf(dir', "latest") = BlobOf(hist.pre, "latest")
       /\ BlobOf(dir', "backup") \in {Absent, BlobOf(hist.pre, "latest")}
       /\ snapshotCounter' = hist.preCounter]_vars

Quiescent == \A s \in SnapIds : snaps[s].pc \in {"idle", "returned"}

\* C4: at every quiescent time after triggerSnapshot calls, at most one of
\* 'latest' and 'backup' is absent and every blob that is present is a
\* complete snapshot.
C4_LatestBackupDiscipline ==
  (Quiescent /\ hist.attempted) =>
    /\ Has(dir, "latest") \/ Has(dir, "backup")
    /\ \A name \in DOMAIN dir : Complete(dir[name])

(***************************************************************************)
(* The row store and its two queries.                                      *)
(***************************************************************************)
\* the order in which a query returns the rows
KeyOrder == <<"a", "b">>

\* the rows a client can write: the vector is the embedding of the content
StoreRows == {r \in Rows : r.vecData = (IF r.content = 1 THEN <<100, 0>> ELSE <<30, 40>>)}

RECURSIVE RowsFrom(_, _)
RowsFrom(table, keys) ==
  IF keys = <<>> THEN <<>>
  ELSE IF Has(table, Head(keys))
       THEN <<table[Head(keys)]>> \o RowsFrom(table, Tail(keys))
       ELSE RowsFrom(table, Tail(keys))

\* store.query(tables.embeddings.select())
selectEmbeddings(table) == RowsFrom(table, KeyOrder)

\* store.query(orphanedEmbeddings$): the rows whose note is gone
orphanedEmbeddings(table, notes) ==
  SelectSeq(selectEmbeddings(table), LAMBDA r : r.noteId \notin notes)

\* writes to the row store in one run
MaxWrites == 3

\* any write to the row store is noticed by the history
StoreChanged ==
  /\ hist.writes < MaxWrites
  /\ hist' = Observed("passes", [hist EXCEPT !.writes = @ + 1],
                     [hist EXCEPT !.readClean = FALSE, !.synced = FALSE,
                                  !.removed = {}, !.writes = @ + 1])

otherT == <<engine, search, adder, dir, store, subscribed, knownEmbeddingIds,
            snapshotCounter, isProcessing, pendingDeltas, snapshotInterval,
            timers, ticks, passes, snaps, boot>>

UpsertNote ==
  /\ \E k \in Keys : k \notin notesTable /\ notesTable' = notesTable \cup {k}
  /\ StoreChanged
  /\ UNCHANGED <<embeddingsTable, otherT>>

DeleteNote ==
  /\ \E k \in notesTable : notesTable' = notesTable \ {k}
  /\ StoreChanged
  /\ UNCHANGED <<embeddingsTable, otherT>>

UpsertEmbedding ==
  /\ \E r \in StoreRows :
       /\ ~(Has(embeddingsTable, r.noteId) /\ embeddingsTable[r.noteId] = r)
       /\ embeddingsTable' = MapSet(embeddingsTable, r.noteId, r)
  /\ StoreChanged
  /\ UNCHANGED <<notesTable, otherT>>

DeleteEmbedding ==
  /\ \E k \in DOMAIN embeddingsTable : embeddingsTable' = MapDelete(embeddingsTable, k)
  /\ StoreChanged
  /\ UNCHANGED <<notesTable, otherT>>

(***************************************************************************)
(* SemanticSearchService as the orchestrator calls it.                     *)
(***************************************************************************)
\* what the caller holds while an addPointToIndex that did nothing is awaited
SkippedAdd == [skipped |-> TRUE]

\* addPointToIndex up to the engine's await
addPointToIndexBegin(E, row) ==
  IF E.isReady
  THEN [engine |-> addPointBegin(E, row), pend |-> addPointPending(E, row)]
  ELSE [engine |-> E, pend |-> SkippedAdd]

\* addPointToIndex from the engine's await on
addPointToIndexEnd(E, pend, ok) ==
  IF Has(pend, "skipped") THEN E ELSE addPointEnd(E, pend, ok)

removePointFromIndex(E, noteId) == removePoint(E, noteId)

(***************************************************************************)
(* HnswDeltaOrchestrator: ticks, debounce timers and processDelta.  A pass *)
(* runs from one await to the next in one step.                            *)
(***************************************************************************)
\* ticks the subscriptions deliver in one run
MaxTicks == 2

\* CHANGES_THRESHOLD, 50 in the source, scaled to the size of the store
CHANGES_THRESHOLD == 2

\* scheduleDeltaProcessing on the flags it reads: the flags it leaves
scheduleDeltaProcessing_DropsTick(ip, pd, tm) ==
  IF ip THEN [pendingDeltas |-> pd, timers |-> tm]
  ELSE [pendingDeltas |-> pd, timers |-> tm + 1]

scheduleDeltaProcessing(ip, pd, tm) ==
  IF ip THEN [pendingDeltas |-> TRUE, timers |-> tm]
  ELSE [pendingDeltas |-> pd, timers |-> tm + 1]

\* the rows of the add loop from the first one whose key is not known
RECURSIVE SkipKnown(_, _)
SkipKnown(known, todo) ==
  IF todo = <<>> THEN <<>>
  ELSE IF Head(todo).noteId \in known THEN SkipKnown(known, Tail(todo))
       ELSE todo

\* the removal loop over the orphaned rows read at the start of the pass
RECURSIVE RemoveOrphans(_, _, _, _, _)
RemoveOrphans(E, known, changes, done, orph) ==
  IF orph = <<>>
  THEN [engine |-> E, known |-> known, changes |-> changes, removed |-> done]
  ELSE IF Head(orph).noteId \in known
       THEN RemoveOrphans(removePointFromIndex(E, Head(orph).noteId),
                          known \ {Head(orph).noteId}, changes + 1,
                          done \cup {Head(orph).noteId}, Tail(orph))
       ELSE RemoveOrphans(E, known, changes, done, Tail(orph))

\* the finally block: release the flag, reschedule when a tick was noted
PassFinally_KeepsFlag(p, pd, tm) ==
  LET sch == scheduleDeltaProcessing(FALSE, pd, tm) IN
  /\ passes' = [passes EXCEPT ![p] = IdlePass]
  /\ isProcessing' = isProcessing
  /\ pendingDeltas' = pd
  /\ timers' = IF pd THEN sch.timers ELSE tm

PassFinally(p, pd, tm) ==
  LET sch == scheduleDeltaProcessing(FALSE, pd, tm) IN
  /\ passes' = [passes EXCEPT ![p] = IdlePass]
  /\ isProcessing' = FALSE
  /\ pendingDeltas' = pd
  /\ timers' = IF pd THEN sch.timers ELSE tm

\* processDelta from the top of the add loop (rows todo left) to the next
\* await or to the end of the call.  ip, pd, tm: the flags and timers as
\* the synchronous code before this point has left them; h: the history.
PassRun(p, E, known, todo, orph, changes, ip, pd, tm, h) ==
  LET rest == SkipKnown(known, todo) IN
  IF rest # <<>>
  THEN LET b == addPointToIndexBegin(E, Head(rest)) IN
       /\ engine' = b.engine
       /\ passes' = [passes EXCEPT ![p] =
                       [pc |-> "adding", todo |-> rest, orphaned |-> orph,
                        changesCount |-> changes, pend |-> b.pend]]
       /\ knownEmbeddingIds' = known
       /\ isProcessing' = ip
       /\ pendingDeltas' = pd
       /\ timers' = tm
       /\ hist' = Observed("counter", h, [h EXCEPT !.calls = @ + 1])
       /\ UNCHANGED <<snapshotCounter, snaps>>
  ELSE LET r == RemoveOrphans(E, known, changes, {}, orph)
           counter == snapshotCounter + r.changes
           \* the removed keys that are orphans in the store as it is now
           gone == {k \in r.removed : Has(embeddingsTable, k) /\ k \notin notesTable}
       IN /\ engine' = r.engine
          /\ knownEmbeddingIds' = r.known
          /\ snapshotCounter' = counter
          /\ IF counter >= CHANGES_THRESHOLD
             THEN /\ snaps[SlotOf(p)].pc = "idle"
                  /\ snaps' = [snaps EXCEPT ![SlotOf(p)] = SnapStart(r.engine)]
                  /\ passes' = [passes EXCEPT ![p] = [pc |-> "snapshot"]]
                  /\ isProcessing' = ip
                  /\ pendingDeltas' = pd
                  /\ timers' = tm
                  /\ hist' = Observed("counter",
                               Observed("passes", h, [h EXCEPT !.removed = @ \cup gone]),
                               [h EXCEPT !.calls = @ + (r.changes - changes)])
             ELSE /\ PassFinally(p, pd, tm)
                  /\ snaps' = snaps
                  /\ hist' = Observed("counter",
                               Observed("passes", h,
                                        [h EXCEPT !.removed = @ \cup gone,
                                                  !.synced = h.readClean]),
                               [h EXCEPT !.calls = @ + (r.changes - changes)])

otherP == <<search, adder, dir, embeddingsTable, notesTable, store, subscribed,
            snapshotInterval, ticks, boot>>

\* a subscription callback: scheduleDeltaProcessing
Tick ==
  /\ subscribed
  /\ ticks < MaxTicks
  /\ ticks' = ticks + 1
  /\ LET sch == scheduleDeltaProcessing(isProcessing, pendingDeltas, timers) IN
       /\ pendingDeltas' = sch.pendingDeltas
       /\ timers' = sch.timers
  /\ hist' = Observed("errors",
                     Observed("passes", hist, [hist EXCEPT !.missedTick = @ \/ isProcessing]),
                     [hist EXCEPT !.owed = TRUE])
  /\ UNCHANGED <<engine, search, adder, dir, embeddingsTable, notesTable, store,
                 subscribed, knownEmbeddingIds, snapshotCounter, isProcessing,
                 snapshotInterval, passes, snaps, boot>>

\* a debounce timeout fires: processDelta up to its first await
DebounceFire ==
  /\ timers > 0
  /\ IF isProcessing
     THEN /\ timers' = timers - 1
          /\ UNCHANGED <<engine, knownEmbeddingIds, snapshotCounter, isProcessing,
                         pendingDeltas, passes, snaps, hist>>
     ELSE IF ~store
     THEN \* this.store is null: the query throws, catch, finally
          /\ timers' = timers - 1
          /\ pendingDeltas' = FALSE
          /\ UNCHANGED <<engine, knownEmbeddingIds, snapshotCounter, isProcessing,
                         passes, snaps, hist>>
     ELSE \E p \in PassIds :
            /\ passes[p].pc = "idle"
            /\ \A q \in PassIds : q < p => passes[q].pc # "idle"
            /\ PassRun(p, engine, knownEmbeddingIds,
                       selectEmbeddings(embeddingsTable),
                       orphanedEmbeddings(embeddingsTable, notesTable),
                       0, TRUE, FALSE, timers - 1,
                       Observed("debounce",
                         Observed("errors",
                           Observed("passes", hist,
                                    [hist EXCEPT !.readClean = TRUE, !.missedTick = FALSE,
                                                 !.served = @ \/ hist.missedTick]),
                           [hist EXCEPT !.owed = FALSE, !.served = @ \/ hist.owed]),
                         [hist EXCEPT !.answered = ticks,
                                      !.again = @ \/ hist.answered = ticks]))
  /\ UNCHANGED otherP

\* the awaited addPointToIndex of pass p is over: record the key, go on
PassResume(p) ==
  /\ passes[p].pc = "adding"
  /\ \E ok \in BOOLEAN :
       PassRun(p, addPointToIndexEnd(engine, passes[p].pend, ok),
               knownEmbeddingIds \cup {Head(passes[p].todo).noteId},
               Tail(passes[p].todo), passes[p].orphaned,
               passes[p].changesCount + 1,
               isProcessing, pendingDeltas, timers, hist)
  /\ UNCHANGED otherP

\* the awaited triggerSnapshot('changes_threshold') of pass p is over
PassSnapshotDone(p) ==
  /\ passes[p].pc = "snapshot"
  /\ snaps[SlotOf(p)].pc = "returned"
  /\ snaps' = [snaps EXCEPT ![SlotOf(p)] = IdleSnap]
  /\ PassFinally(p, pendingDeltas, timers)
  /\ hist' = Observed("passes", hist, [hist EXCEPT !.synced = hist.readClean])
  /\ UNCHANGED <<engine, knownEmbeddingIds, snapshotCounter>>
  /\ UNCHANGED otherP

PassResumeStep == \E p \in PassIds : PassResume(p)

PassSnapshotDoneStep == \E p \in PassIds : PassSnapshotDone(p)

(***************************************************************************)
(* Delta sync after a boot: the service is ready, the subscriptions are    *)
(* in place, clients write to the row store.                               *)
(***************************************************************************)
InitDelta ==
  /\ engine = EngineInitialize(NewEngine, TRUE)
  /\ search = IdleSearch
  /\ adder = IdleAdder
  /\ FreshOrchestrator_Running
  /\ hist = Watch("passes")
  /\ dir = EmptyMap
  /\ embeddingsTable = EmptyMap
  /\ notesTable = {}

NextDelta ==
  \/ UpsertNote
  \/ DeleteNote
  \/ UpsertEmbedding
  \/ DeleteEmbedding
  \/ Tick
  \/ DebounceFire
  \/ PassResumeStep
  \/ PassSnapshotDoneStep
  \/ SnapRenameStep
  \/ SnapPersistStep
  \/ SnapGcStep
  \/ SnapRollbackStep

SpecDelta == InitDelta /\ [][NextDelta]_vars

(***************************************************************************)
(* Ticks and passes over a row store that is not written meanwhile: the    *)
(* store is as any earlier writes have left it.                            *)
(***************************************************************************)
\* the row tables clients can have written
StoreTables ==
  {t \in UNION {[ks -> StoreRows] : ks \in SUBSET Keys} : \A k \in DOMAIN t : t[k].noteId = k}

InitTick ==
  /\ engine = EngineInitialize(NewEngine, TRUE)
  /\ search = IdleSearch
  /\ adder = IdleAdder
  /\ FreshOrchestrator_Running
  /\ hist = Watch("passes")
  /\ dir = EmptyMap
  /\ embeddingsTable \in {t \in StoreTables : \A k \in DOMAIN t : t[k].content = 1}
  /\ notesTable \in SUBSET Keys

NextTick ==
  \/ Tick
  \/ DebounceFire
  \/ PassResumeStep
  \/ PassSnapshotDoneStep
  \/ SnapRenameStep
  \/ SnapPersistStep
  \/ SnapGcStep
  \/ SnapRollbackStep

SpecTick == InitTick /\ [][NextTick]_vars

\* the timers fire and the awaited calls return
SpecTickFair ==
  /\ SpecTick
  /\ WF_vars(DebounceFire)
  /\ WF_vars(PassResumeStep)
  /\ WF_vars(PassSnapshotDoneStep)
  /\ WF_vars(SnapRenameStep)
  /\ WF_vars(SnapPersistStep)
  /\ WF_vars(SnapGcStep)
  /\ WF_vars(SnapRollbackStep)

(***************************************************************************)
(* Statements about delta reconciliation.                                  *)
(***************************************************************************)
PassesIdle == \A p \in PassIds : passes[p].pc = "idle"

\* the rows whose note exists
LiveKeys == {k \in DOMAIN embeddingsTable : k \in notesTable}

\* the ids under which the index holds a vector of key k that is not removed
LiveIds(E, k) ==
  {i \in DOMAIN E.hnswIndex :
     /\ i \notin E.tombstones
     /\ Has(E.hnswIdToNoteId, i)
     /\ E.hnswIdToNoteId[i] = k}

Converged ==
  /\ knownEmbeddingIds = LiveKeys
  /\ \A k \in Keys : Cardinality(LiveIds(engine, k)) = (IF k \in LiveKeys THEN 1 ELSE 0)

\* C2: once a pass has completed that read the row store after its last
\* write, and no pass is running, knownEmbeddingIds is the set of keys of
\* the live rows and the index holds one live vector for each of them and
\* none for any other key.
C2_OrchestratorConvergence == (hist.synced /\ PassesIdle) => Converged

\* C9: once a pass has completed that read the row store after its last
\* write, every row whose key is known and indexed has its current vector
\* in the index under its key.
C9_ChangedRowReAdded ==
  (hist.synced /\ PassesIdle) =>
    \A k \in knownEmbeddingIds \cap DOMAIN embeddingsTable :
      Has(engine.noteIdToHnswId, k) =>
        engine.hnswIndex[engine.noteIdToHnswId[k]] = l2Normalize(embeddingsTable[k].vecData)

\* the keys a search for vector qv would return now
SearchKeys(E, qv) ==
  LET rs == ComputeResults(E, qv, MaxK) IN {rs[i].noteId : i \in 1..Len(rs)}

\* C10: a key that a pass removed as an orphan stays out of
\* knownEmbeddingIds and out of every search result while the row store is
\* not written, during and after any further pass.
C10_OrphanRemovalStable ==
  \A a \in hist.removed :
    /\ a \notin knownEmbeddingIds
    /\ \A q \in Queries : a \notin SearchKeys(engine, Embed(q))

\* C8: a tick that arrives while a pass is in progress is followed by the
\* start of a pass that reads the row store.
C8_NoLostTick == hist.missedTick ~> ~hist.missedTick

\* a tick came during a pass, and a later pass has started
C8_Witness == hist.served /\ ~hist.missedTick

(***************************************************************************)
(* The life cycle: initialize (warm or cold boot), forceFullRebuild,       *)
(* shutdown, the periodic snapshot timer.                                  *)
(***************************************************************************)
\* initialize and forceFullRebuild calls in one run
MaxBoots == 1

\* HNSWPersistence.loadGraph: null when the file is missing or does not parse
loadGraph(d, fileName) ==
  IF Has(d, fileName) /\ d[fileName] # EmptyFile
  THEN [found |-> TRUE, nodes |-> d[fileName].nodes]
  ELSE [found |-> FALSE, nodes |-> EmptyMap]

setHnswIndex(E, index) == [E EXCEPT !.hnswIndex = index]

\* the position (from 0) of key k in the rows
RECURSIVE IndexOf(_, _)
IndexOf(rows, k) == IF Head(rows).noteId = k THEN 0 ELSE 1 + IndexOf(Tail(rows), k)

\* SearchEngine.rebuildMappings: ids by row order, vectors as stored
rebuildMappings(E, rows) ==
  LET ks == {rows[i].noteId : i \in 1..Len(rows)} IN
  [E EXCEPT !.embeddings     = [k \in ks |->
                                  LET r == rows[IndexOf(rows, k) + 1]
                                  IN [noteId |-> k, content |-> r.content,
                                      embedding |-> r.vecData]],
            !.noteIdToHnswId = [k \in ks |-> IndexOf(rows, k)],
            !.hnswIdToNoteId = [i \in 0..(Len(rows) - 1) |-> rows[i + 1].noteId],
            !.nextHnswId     = Len(rows)]

\* startDeltaSync and startPeriodicSnapshots at the end of initialize; with
\* this.store null the subscribe throws and the retried cold boot throws too
StartSync_NoTimer(st) ==
  /\ subscribed' = (subscribed \/ st)
  /\ snapshotInterval' = snapshotInterval

StartSync(st) ==
  /\ subscribed' = (subscribed \/ st)
  /\ snapshotInterval' = (snapshotInterval \/ st)

\* performColdBoot from the top of its loop (rows todo left) to the next
\* await, or to what its caller does after it
ColdBootRun(kind, E, known, todo) ==
  IF todo # <<>>
  THEN LET b == addPointToIndexBegin(E, Head(todo)) IN
       /\ engine' = b.engine
       /\ knownEmbeddingIds' = known
       /\ boot' = [pc |-> "adding", kind |-> kind, todo |-> todo, pend |-> b.pend]
       /\ UNCHANGED <<subscribed, snapshotInterval, snaps>>
  ELSE /\ engine' = E
       /\ knownEmbeddingIds' = known
       /\ IF kind = "initialize"
          THEN /\ StartSync(store)
               /\ boot' = IdleBoot
               /\ snaps' = snaps
          ELSE /\ snaps["boot"].pc = "idle"
               /\ snaps' = [snaps EXCEPT !["boot"] = SnapStart(E)]
               /\ boot' = [pc |-> "snapshot", kind |-> kind]
               /\ UNCHANGED <<subscribed, snapshotInterval>>

otherB == <<search, adder, dir, embeddingsTable, notesTable, isProcessing,
            pendingDeltas, timers, ticks, passes>>

\* initialize(store) up to `await attemptWarmBoot()`
InitializeCall ==
  /\ ~store
  /\ boot.pc = "idle"
  /\ hist.boots < MaxBoots
  /\ store' = TRUE
  /\ boot' = [pc |-> "load", kind |-> "initialize"]
  /\ hist' = [hist EXCEPT !.boots = @ + 1]
  /\ UNCHANGED <<engine, knownEmbeddingIds, snapshotCounter, subscribed,
                 snapshotInterval, snaps, otherB>>

\* loadGraph('latest') is over: warm boot, or the cold boot's first add
BootLoaded ==
  /\ boot.pc = "load"
  /\ LET g == loadGraph(dir, "latest")
         rows == selectEmbeddings(embeddingsTable)
     IN IF g.found /\ DOMAIN g.nodes # {}
        THEN /\ engine' = rebuildMappings(setHnswIndex(engine, g.nodes), rows)
             /\ knownEmbeddingIds' = (IF store THEN DOMAIN embeddingsTable
                                      ELSE knownEmbeddingIds)
             /\ StartSync(store)
             /\ boot' = IdleBoot
             /\ snaps' = snaps
        ELSE IF ~store
        THEN /\ boot' = IdleBoot
             /\ UNCHANGED <<engine, knownEmbeddingIds, subscribed, snapshotInterval, snaps>>
        ELSE ColdBootRun(boot.kind, engine, knownEmbeddingIds, rows)
  /\ UNCHANGED <<store, snapshotCounter, hist, otherB>>

\* the awaited addPointToIndex of the cold boot is over
BootResume ==
  /\ boot.pc = "adding"
  /\ \E ok \in BOOLEAN :
       ColdBootRun(boot.kind, addPointToIndexEnd(engine, boot.pend, ok),
                   knownEmbeddingIds \cup {Head(boot.todo).noteId},
                   Tail(boot.todo))
  /\ UNCHANGED <<store, snapshotCounter, hist, otherB>>

\* the awaited triggerSnapshot('manual') of forceFullRebuild is over
BootSnapshotDone ==
  /\ boot.pc = "snapshot"
  /\ snaps["boot"].pc = "returned"
  /\ snaps' = [snaps EXCEPT !["boot"] = IdleSnap]
  /\ boot' = IdleBoot
  /\ UNCHANGED <<engine, knownEmbeddingIds, snapshotCounter, subscribed,
                 snapshotInterval, store, hist, otherB>>

\* forceFullRebuild up to its first await
ForceFullRebuild ==
  /\ boot.pc = "idle"
  /\ hist.boots < MaxBoots
  /\ snapshotCounter' = 0
  /\ hist' = [hist EXCEPT !.boots = @ + 1]
  /\ IF ~store
     THEN /\ knownEmbeddingIds' = {}
          /\ UNCHANGED <<engine, boot, subscribed, snapshotInterval, snaps>>
     ELSE ColdBootRun("rebuild", engine, {}, selectEmbeddings(embeddingsTable))
  /\ UNCHANGED <<store, otherB>>

\* shutdown(): unsubscribe, clear the interval, reset the flags
Shutdown ==
  /\ store
  /\ store' = FALSE
  /\ subscribed' = FALSE
  /\ snapshotInterval' = FALSE
  /\ isProcessing' = FALSE
  /\ pendingDeltas' = FALSE
  /\ UNCHANGED <<engine, search, adder, dir, embeddingsTable, notesTable,
                 knownEmbeddingIds, snapshotCounter, timers, ticks, passes,
                 snaps, boot, hist>>

\* the snapshot interval fires: triggerSnapshot('periodic')
PeriodicSnapshot ==
  /\ snapshotInterval
  /\ SnapBegin("periodic")
  /\ UNCHANGED <<engine, dir, snapshotCounter, hist, otherS>>

\* an orchestrator that is running over a store clients have written to:
\* one key, with or without its note
InitLife ==
  /\ engine = EngineInitialize(NewEngine, TRUE)
  /\ search = IdleSearch
  /\ adder = IdleAdder
  /\ FreshOrchestrator_Running
  /\ hist = Watch("none")
  /\ dir = EmptyMap
  /\ embeddingsTable \in {t \in StoreTables : DOMAIN t \subseteq {"a"}}
  /\ notesTable \in SUBSET {"a"}

NextLife ==
  \/ Tick
  \/ DebounceFire
  \/ PassResumeStep
  \/ PassSnapshotDoneStep
  \/ Shutdown
  \/ InitializeCall
  \/ BootLoaded
  \/ BootResume
  \/ BootSnapshotDone
  \/ ForceFullRebuild
  \/ SnapRenameStep
  \/ SnapPersistStep
  \/ SnapGcStep
  \/ SnapRollbackStep

SpecLife == InitLife /\ [][NextLife]_vars

(***************************************************************************)
(* Snapshots from the interval timer and from the hook while passes run.   *)
(***************************************************************************)
InitIso ==
  /\ engine = EngineInitialize(NewEngine, TRUE)
  /\ search = IdleSearch
  /\ adder = IdleAdder
  /\ FreshOrchestrator_Running
  /\ hist = Watch("none")
  /\ dir = EmptyMap
  /\ embeddingsTable \in {t \in StoreTables : DOMAIN t = Keys}
  /\ notesTable = Keys

NextIso ==
  \/ Tick
  \/ DebounceFire
  \/ PassResumeStep
  \/ PassSnapshotDoneStep
  \/ PeriodicSnapshot
  \/ ManualSnapshot
  \/ SnapRenameStep
  \/ SnapPersistStep
  \/ SnapGcStep
  \/ SnapRollbackStep
  \/ SnapReturnStep

SpecIso == InitIso /\ [][NextIso]_vars

(***************************************************************************)
(* Statements about the life cycle.                                        *)
(***************************************************************************)
\* the passes between `isProcessing = true` and the finally block
InFlight == {p \in PassIds : passes[p].pc # "idle"}

\* C7: at most one processDelta pass is between setting isProcessing and
\* releasing it.
C7_SingleFlight == Cardinality(InFlight) <= 1

\* snapshot s is between the start of its rename and the end of its
\* persist or rollback
InSequence(s) == snaps[s].pc \in {"rename", "persist", "rollback"}

\* an add or a removal of a pass or of a cold boot takes effect in the engine
MutatorStep == boot.pc # "load" /\ engine' # engine

\* C6: no add or removal of a pass or cold boot takes effect while a
\* triggerSnapshot is between the start of its rename and the end of its
\* persist or rollback.
C6_SnapshotIsolation == [][(\E s \in SnapIds : InSequence(s)) => ~MutatorStep]_vars

(***************************************************************************)
(* The engine under a client that calls every mutator, each call awaited   *)
(* before the next one starts.                                             *)
(***************************************************************************)
\* addChunkPoint, from the call to the await on hnswIndex.addPoint
AddChunkPointOf(ids) ==
  /\ adder.pc = "idle"
  /\ engine.isReady
  /\ engine.nextHnswId < MaxHnswId
  /\ \E chunkId \in ids, vector \in Vecs, metadata \in BOOLEAN :
       /\ engine' = addChunkPointBegin(engine)
       /\ adder' = [pc |-> "insertChunk",
                    pend |-> addChunkPointPending(engine, chunkId, vector, metadata)]
  /\ UNCHANGED <<search, otherE>>

AddChunkPointCall == AddChunkPointOf(Keys)

\* addChunkPoint, resumed after the await (insert done or thrown and caught)
AddChunkPointResume ==
  /\ adder.pc = "insertChunk"
  /\ \E ok \in BOOLEAN : engine' = addChunkPointEnd(engine, adder.pend, ok)
  /\ adder' = IdleAdder
  /\ UNCHANGED <<search, otherE>>

LoadEmbeddingsCall ==
  /\ adder.pc = "idle"
  /\ \E t \in StoreTables, ok \in BOOLEAN :
       engine' = loadEmbeddings(engine, selectEmbeddings(t), ok)
  /\ UNCHANGED <<search, adder, otherE>>

RebuildMappingsCall ==
  /\ adder.pc = "idle"
  /\ \E t \in StoreTables : engine' = rebuildMappings(engine, selectEmbeddings(t))
  /\ UNCHANGED <<search, adder, otherE>>

ClearCall ==
  /\ adder.pc = "idle"
  /\ engine' = clear(engine)
  /\ UNCHANGED <<search, adder, otherE>>

NextMaps ==
  \/ Initialize
  \/ AddPointCall
  \/ AddPointNotReady
  \/ AddPointResume
  \/ AddChunkPointCall
  \/ AddChunkPointResume
  \/ RemovePointCall
  \/ LoadEmbeddingsCall
  \/ RebuildMappingsCall
  \/ ClearCall

SpecMaps == InitEngine /\ [][NextMaps]_vars

\* C12: id-map bijection - between calls, every internal id of hnswIdToNoteId
\* that is not tombstoned is the id its key maps to, and every key of
\* noteIdToHnswId is the key its id maps to.
C12_IdMapBijection ==
  adder.pc = "idle" =>
    /\ \A i \in DOMAIN engine.hnswIdToNoteId :
         i \notin engine.tombstones =>
           /\ Has(engine.noteIdToHnswId, engine.hnswIdToNoteId[i])
           /\ engine.noteIdToHnswId[engine.hnswIdToNoteId[i]] = i
    /\ \A k \in DOMAIN engine.noteIdToHnswId :
         /\ Has(engine.hnswIdToNoteId, engine.noteIdToHnswId[k])
         /\ engine.hnswIdToNoteId[engine.noteIdToHnswId[k]] = k

(***************************************************************************)
(* The orchestrator from construction: initialize over a store clients     *)
(* have written to and a snapshot directory an earlier session has left,   *)
(* the search service becoming ready at any time, then delta passes.       *)
(***************************************************************************)
\* a snapshot written by another version of the format
StaleBlob == [nodes |-> (0 :> <<0, 100>>), version |-> "0.9.0"]

BootDirs ==
  {EmptyMap, "latest" :> serializeGraph(0 :> <<100, 0>>), "latest" :> StaleBlob}

InitBoot ==
  /\ FreshEngine
  /\ FreshOrchestrator
  /\ hist = Watch("none")
  /\ dir \in BootDirs
  /\ embeddingsTable \in {t \in StoreTables : \A k \in DOMAIN t : t[k].content = 1}
  /\ notesTable \in SUBSET Keys

NextBoot ==
  \/ Initialize
  \/ InitializeCall
  \/ BootLoaded
  \/ BootResume
  \/ Tick
  \/ DebounceFire
  \/ PassResumeStep
  \/ PassSnapshotDoneStep
  \/ SnapRenameStep
  \/ SnapPersistStep
  \/ SnapGcStep
  \/ SnapRollbackStep

SpecBoot == InitBoot /\ [][NextBoot]_vars

(***************************************************************************)
(* Statements about boot and what the orchestrator records as known.       *)
(***************************************************************************)
\* initialize has returned and no pass is running
OrchestratorQuiescent == store /\ boot.pc = "idle" /\ PassesIdle

\* the internal ids of the id maps that are not tombstoned
MappedLive(E) == {i \in DOMAIN E.hnswIdToNoteId : i \notin E.tombstones}

\* C13: known-set/index agreement - when initialize has returned and no
\* pass is running, every known key is mapped to an internal id that is not
\* tombstoned and is in the graph, and there are as many known keys as
\* non-tombstoned ids in the id maps.
C13_KnownIndexAgreement ==
  OrchestratorQuiescent =>
    /\ \A k \in knownEmbeddingIds :
         /\ Has(engine.noteIdToHnswId, k)
         /\ engine.noteIdToHnswId[k] \notin engine.tombstones
         /\ Has(engine.hnswIndex, engine.noteIdToHnswId[k])
    /\ Cardinality(knownEmbeddingIds) = Cardinality(MappedLive(engine))

\* the add that pend stands for has not put its key in the index: it was
\* skipped, or the insert threw
AddFailed(pend) ==
  \/ Has(pend, "skipped")
  \/ ~Has(engine'.noteIdToHnswId, pend.noteId)
  \/ engine'.noteIdToHnswId[pend.noteId] # pend.newId

\* C14: failed add is retried - when the awaited add of a cold boot or of a
\* pass has failed or was skipped, the step that resumes the loop does not
\* leave the row's key in knownEmbeddingIds.
C14_FailedAddRetried ==
  [][/\ (boot.pc = "adding" /\ boot' # boot /\ AddFailed(boot.pend))
          => Head(boot.todo).noteId \notin knownEmbeddingIds'
     /\ \A p \in PassIds :
          (passes[p].pc = "adding" /\ passes'[p] # passes[p] /\ AddFailed(passes[p].pend))
            => Head(passes[p].todo).noteId \notin knownEmbeddingIds']_vars

(***************************************************************************)
(* Statements about a single addPoint call.                                *)
(***************************************************************************)
\* the client's addPoint call returns in this step, its insert having thrown
AddPointFailed == adder.pc = "insert" /\ adder'.pc = "idle" /\ AddFailed(adder.pend)

\* C15: failed insert does not mutate - when the graph insert of addPoint
\* has thrown, the call returns with nextHnswId at the value it had before
\* the call (the id the call took for the new node).
C15_FailedInsertNoMutation ==
  [][AddPointFailed => engine'.nextHnswId = adder.pend.newId]_vars

\* addPoint(row) awaited to its return, the graph insert succeeding
addPointAwaited(E, row) == addPointEnd(addPointBegin(E, row), addPointPending(E, row), TRUE)

getEmbeddingCount(E) == Cardinality(DOMAIN E.embeddings)

\* what search(q, limit) returns on engine E when the embedding succeeds
SearchOutput(E, q, limit) ==
  LET trimmedQuery == Trim(q) IN
  IF DOMAIN E.embeddings = {} THEN <<>>
  ELSE IF CacheHas(E.resultsCache, trimmedQuery)
  THEN Slice(CacheGet(E.resultsCache, trimmedQuery), limit)
  ELSE IF CacheHas(E.queryCache, trimmedQuery)
  THEN ComputeResults(E, CacheGet(E.queryCache, trimmedQuery), limit)
  ELSE ComputeResults(E, l2Normalize(Embed(trimmedQuery)), limit)

\* the engine is ready and has room for two more ids, no call in flight
CanAddTwice ==
  engine.isReady /\ adder.pc = "idle" /\ search.pc = "idle"
    /\ engine.nextHnswId + 2 <= MaxHnswId

\* C16: upsert idempotence - from any engine state, addPoint(row) called
\* twice in succession leaves the same number of graph nodes, the same
\* getEmbeddingCount and the same output of every search as one call.
C16_UpsertIdempotent ==
  CanAddTwice =>
    \A row \in EngineRows :
      LET once == addPointAwaited(engine, row)
          twice == addPointAwaited(once, row)
      IN /\ Cardinality(DOMAIN twice.hnswIndex) = Cardinality(DOMAIN once.hnswIndex)
         /\ getEmbeddingCount(twice) = getEmbeddingCount(once)
         /\ \A q \in Queries, k \in 1..MaxK :
              SearchOutput(twice, q, k) = SearchOutput(once, q, k)

(***************************************************************************)
(* gcOldSnapshots(keepCount) on its own, over the directories an earlier   *)
(* session can have left.  The class exists in two versions: the module    *)
(* the orchestrator imports (hnsw/persistence) and the one with the        *)
(* latest/backup case.                                                     *)
(***************************************************************************)
MaxKeep == 2

\* the orders in which getSnapshotInfo can list the names (mtime descending)
Listings(names) ==
  {o \in [1..Cardinality(names) -> names] : \A i, j \in DOMAIN o : o[i] = o[j] => i = j}

\* hnsw/persistence gcOldSnapshots: everything after the first keepCount
toDelete(snapshots, keepCount) ==
  IF Len(snapshots) <= keepCount THEN {}
  ELSE {snapshots[i] : i \in (keepCount + 1)..Len(snapshots)}

\* the version with the special case: keepCount 0 keeps latest and backup
toDeleteKeepingNamed(snapshots, keepCount) ==
  IF keepCount = 0
  THEN {snapshots[i] : i \in 1..Len(snapshots)} \ {"latest", "backup"}
  ELSE toDelete(snapshots, keepCount)

\* one gcOldSnapshots call: list (or fail to list), remove what can be removed
GcRun(named) ==
  \E keepCount \in 0..MaxKeep, snapshots \in Listings(DOMAIN dir), listed \in BOOLEAN :
    LET candidates == IF ~listed THEN {}
                      ELSE IF named THEN toDeleteKeepingNamed(snapshots, keepCount)
                      ELSE toDelete(snapshots, keepCount) IN
    \E failed \in SUBSET candidates :
      /\ dir' = gcOldSnapshots(dir, candidates \ failed)
      /\ hist' = [hist EXCEPT !.gc = [keepCount |-> keepCount, pre |-> dir,
                                      snapshots |-> snapshots,
                                      faulted |-> (~listed \/ failed # {})]]
      /\ UNCHANGED <<engine, search, adder, embeddingsTable, notesTable,
                     store, subscribed, knownEmbeddingIds, snapshotCounter,
                     isProcessing, pendingDeltas, snapshotInterval,
                     timers, ticks, passes, snaps, boot>>

GcOldSnapshots == GcRun(FALSE)

GcOldSnapshotsKeepingNamed == GcRun(TRUE)

InitGc ==
  /\ FreshEngine
  /\ FreshOrchestrator
  /\ hist = Watch("gc")
  /\ dir \in InitDirs
  /\ embeddingsTable = EmptyMap
  /\ notesTable = {}

NextGc ==
  \/ GcOldSnapshots
  \/ GcOldSnapshotsKeepingNamed

SpecGc == InitGc /\ [][NextGc]_vars

\* C17: after a gcOldSnapshots(0) call, latest and backup are as they were
\* before it and, when no storage call failed, no other blob is left; after
\* gcOldSnapshots(keep) with keep > 0 and no storage failure, the blobs left
\* are the first keep of the listing by modification time.
C17_GcRetainsLatestBackup ==
  LET g == hist.gc IN
  /\ g.keepCount = 0 =>
       /\ \A name \in {"latest", "backup"} \cap DOMAIN g.pre :
            Has(dir, name) /\ dir[name] = g.pre[name]
       /\ ~g.faulted => DOMAIN dir \subseteq {"latest", "backup"}
  /\ (g.keepCount > 0 /\ ~g.faulted) =>
       DOMAIN dir = {g.snapshots[i] : i \in 1..Len(Slice(g.snapshots, g.keepCount))}

(***************************************************************************)
(* renameFile and removeFile on their own: the error the storage calls     *)
(* raise, and what the catch block does with it.                           *)
(***************************************************************************)
FileNames == {"latest", "backup", "main-index"}

\* the error raised inside the try block: getDirectory fails ("early"), the
\* directory or the source is missing, or a later call fails
RaisedBy(d, dirExists, name, fault) ==
  IF fault = "early" THEN "UnknownError"
  ELSE IF ~dirExists \/ ~Has(d, name) THEN "NotFoundError"
  ELSE IF fault = "none" THEN NoVal
  ELSE "UnknownError"

\* the catch block: NotFoundError is swallowed, anything else is thrown on
Rethrown_All(errorName) == errorName # NoVal

Rethrown(errorName) == errorName # NoVal /\ errorName # "NotFoundError"

\* removeFile(fileName): dir.removeEntry
removeFile(d, fileName, fault) ==
  IF Has(d, fileName) /\ fault = "none" THEN MapDelete(d, fileName) ELSE d

\* the record of a call for the statements
IoCall(op, name, dirExists, fault) ==
  [ op        |-> op,
    name      |-> name,
    pre       |-> dir,
    dirExists |-> dirExists,
    raised    |-> RaisedBy(dir, dirExists, name, fault),
    thrown    |-> Rethrown(RaisedBy(dir, dirExists, name, fault)) ]

otherF == <<engine, search, adder, embeddingsTable, notesTable,
            store, subscribed, knownEmbeddingIds, snapshotCounter,
            isProcessing, pendingDeltas, snapshotInterval,
            timers, ticks, passes, snaps, boot>>

RenameFileCall ==
  /\ \E oldName \in FileNames, newName \in FileNames,
        dirExists \in BOOLEAN, fault \in Faults :
       /\ oldName # newName
       /\ dirExists \/ dir = EmptyMap
       /\ dir' = renameFile(dir, oldName, newName, fault)
       /\ hist' = [hist EXCEPT !.io = IoCall("renameFile", oldName, dirExists, fault),
                                !.renamedTo = newName]
  /\ UNCHANGED otherF

RemoveFileCall ==
  /\ \E fileName \in FileNames, dirExists \in BOOLEAN, fault \in Faults :
       /\ dirExists \/ dir = EmptyMap
       /\ dir' = removeFile(dir, fileName, fault)
       /\ hist' = [hist EXCEPT !.io = IoCall("removeFile", fileName, dirExists, fault)]
  /\ UNCHANGED otherF

InitFiles ==
  /\ FreshEngine
  /\ FreshOrchestrator
  /\ hist = Watch("files")
  /\ dir \in InitDirs
  /\ embeddingsTable = EmptyMap
  /\ notesTable = {}

NextFiles ==
  \/ RenameFileCall
  \/ RemoveFileCall

SpecFiles == InitFiles /\ [][NextFiles]_vars

\* the last call found its source blob or the directory missing
SourceMissing == hist.io.op # "none" /\ (~hist.io.dirExists \/ ~Has(hist.io.pre, hist.io.name))

\* C18: idempotent rename/remove - a renameFile or removeFile call whose
\* source blob (or directory) is missing, with no other storage error,
\* returns without throwing and leaves the directory as it was; a storage
\* error other than NotFoundError is thrown to the caller.
C18_IdempotentRenameRemove ==
  hist.io.op # "none" =>
    /\ (SourceMissing /\ hist.io.raised \in {NoVal, "NotFoundError"})
         => (~hist.io.thrown /\ dir = hist.io.pre)
    /\ hist.io.raised \notin {NoVal, "NotFoundError"} => hist.io.thrown

\* a rename of a missing source has returned normally
C18_Witness ==
  hist.io.op = "renameFile" /\ SourceMissing /\ hist.io.dirExists /\ ~hist.io.thrown

(***************************************************************************)
(* Statements about what boot installs.                                    *)
(***************************************************************************)
\* latest holds a graph written under another format version
StaleLatest ==
  Has(dir, "latest") /\ Complete(dir["latest"]) /\ dir["latest"].version # VERSION

\* C19: version mismatch forces rebuild - when initialize has read a latest
\* snapshot whose metadata.version is not VERSION, the step that follows
\* the load does not make that snapshot's graph the live index.
C19_VersionMismatchRebuild ==
  [][(boot.pc = "load" /\ boot' # boot /\ StaleLatest)
       => engine'.hnswIndex # dir["latest"].nodes]_vars

\* forceFullRebuild returns in this step, after its snapshot
RebuildReturns == boot.pc = "snapshot" /\ boot.kind = "rebuild" /\ boot'.pc = "idle"

\* every row has exactly one live node under its key
EveryRowLive(E) == \A k \in DOMAIN embeddingsTable : Cardinality(LiveIds(E, k)) = 1

\* C20: full rebuild compacts - when forceFullRebuild returns and every row
\* it added is live in the index, the tombstone set is empty, the graph has
\* one node per embedding row and knownEmbeddingIds is the set of row keys.
C20_FullRebuildCompacts ==
  [][(RebuildReturns /\ EveryRowLive(engine')) =>
       /\ engine'.tombstones = {}
       /\ Cardinality(DOMAIN engine'.hnswIndex) = Cardinality(DOMAIN embeddingsTable)
       /\ knownEmbeddingIds' = DOMAIN embeddingsTable]_vars

(***************************************************************************)
(* Statements about shutdown.                                              *)
(***************************************************************************)
\* shutdown has returned and initialize has not been called since
ShutDown == ~store

\* C21: shutdown quiesces - once shutdown has returned, the subscriptions
\* and the snapshot interval are released, knownEmbeddingIds, the counter
\* and the flags are cleared, and no step of the orchestrator changes the
\* engine or the snapshot directory.
C21_ShutdownQuiesces ==
  [][ShutDown =>
       /\ ~subscribed /\ ~snapshotInterval
       /\ knownEmbeddingIds = {} /\ snapshotCounter = 0
       /\ ~isProcessing /\ ~pendingDeltas
       /\ engine' = engine /\ dir' = dir]_vars

(***************************************************************************)
(* Snapshot and restart: rows are written and indexed by delta passes,     *)
(* threshold snapshots are taken, then the page is reloaded and a new      *)
(* engine and orchestrator boot over what is on disk.                      *)
(***************************************************************************)
\* latest is a complete snapshot of the index as it is, and the index holds
\* one live node, with the row's vector, for every row and for no other key
SnapshotAgrees ==
  /\ Has(dir, "latest") /\ Complete(dir["latest"])
  /\ dir["latest"].nodes = engine.hnswIndex
  /\ \A k \in Keys :
       IF Has(embeddingsTable, k)
       THEN /\ Cardinality(LiveIds(engine, k)) = 1
            /\ \A i \in LiveIds(engine, k) :
                 engine.hnswIndex[i] = l2Normalize(embeddingsTable[k].vecData)
       ELSE LiveIds(engine, k) = {}

\* the page is reloaded: the module singletons are constructed anew, calls
\* in flight and timers are gone, the store and the directory stay
Restart ==
  /\ store
  /\ ~hist.restart.done
  /\ engine' = NewEngine
  /\ search' = IdleSearch
  /\ adder' = IdleAdder
  /\ store' = FALSE
  /\ subscribed' = FALSE
  /\ knownEmbeddingIds' = {}
  /\ snapshotCounter' = 0
  /\ isProcessing' = FALSE
  /\ pendingDeltas' = FALSE
  /\ snapshotInterval' = FALSE
  /\ timers' = 0
  /\ passes' = [p \in PassIds |-> IdlePass]
  /\ snaps' = [s \in SnapIds |-> IdleSnap]
  /\ boot' = IdleBoot
  /\ hist' = [hist EXCEPT !.restart = [done |-> TRUE, rows |-> embeddingsTable,
                                       agreed |-> SnapshotAgrees]]
  /\ UNCHANGED <<dir, embeddingsTable, notesTable, ticks>>

InitRestart ==
  /\ engine = EngineInitialize(NewEngine, TRUE)
  /\ search = IdleSearch
  /\ adder = IdleAdder
  /\ FreshOrchestrator_Running
  /\ hist = Watch("restart")
  /\ dir = EmptyMap
  /\ embeddingsTable = EmptyMap
  /\ notesTable = Keys

NextRestart ==
  \/ UpsertEmbedding
  \/ Tick
  \/ DebounceFire
  \/ PassResumeStep
  \/ PassSnapshotDoneStep
  \/ SnapRenameStep
  \/ SnapPersistStep
  \/ SnapGcStep
  \/ SnapRollbackStep
  \/ Restart
  \/ Initialize
  \/ InitializeCall
  \/ BootLoaded
  \/ BootResume

SpecRestart == InitRestart /\ [][NextRestart]_vars

\* the reload found a snapshot that agreed with the rows, the rows are still
\* the same, and initialize has returned
BootedOverSnapshot ==
  /\ hist.restart.done
  /\ hist.restart.agreed
  /\ embeddingsTable = hist.restart.rows
  /\ store /\ boot.pc = "idle" /\ PassesIdle

\* C22: snapshot + restart round trip - after a boot over a snapshot that
\* agreed with the rows, every row key is mapped to an internal id that is
\* in the graph with the row's vector, and a search for the vector of a row
\* (no other row having the same) returns the row's key first.
C22_SnapshotRestartRoundTrip ==
  BootedOverSnapshot =>
    \A k \in DOMAIN embeddingsTable :
      LET v == l2Normalize(embeddingsTable[k].vecData)
          rs == ComputeResults(engine, v, 1)
      IN /\ Has(engine.noteIdToHnswId, k)
         /\ Has(engine.hnswIndex, engine.noteIdToHnswId[k])
         /\ engine.hnswIndex[engine.noteIdToHnswId[k]] = v
         /\ (\A j \in DOMAIN embeddingsTable \ {k} :
                embeddingsTable[j].vecData # embeddingsTable[k].vecData)
              => (Len(rs) > 0 /\ rs[1].noteId = k)

(***************************************************************************)
(* Passes and threshold snapshots with failing adds and failing storage,   *)
(* timers firing and awaited calls returning.                              *)
(***************************************************************************)
InitErr ==
  /\ engine = EngineInitialize(NewEngine, TRUE)
  /\ search = IdleSearch
  /\ adder = IdleAdder
  /\ FreshOrchestrator_Running
  /\ hist = Watch("errors")
  /\ dir = EmptyMap
  /\ embeddingsTable \in {t \in StoreTables : DOMAIN t = Keys /\ \A k \in Keys : t[k].content = 1}
  /\ notesTable = {"a"}

\* a debounce timeout fires and the row query of processDelta throws: the
\* flag is taken and, through catch and finally, released in the same stretch
ProcessDeltaQueryThrows ==
  /\ timers > 0
  /\ ~isProcessing
  /\ store
  /\ isProcessing' = FALSE
  /\ pendingDeltas' = FALSE
  /\ timers' = IF pendingDeltas
               THEN scheduleDeltaProcessing(FALSE, pendingDeltas, timers - 1).timers
               ELSE timers - 1
  /\ hist' = Observed("errors", hist, [hist EXCEPT !.owed = FALSE, !.threw = TRUE])
  /\ UNCHANGED <<engine, knownEmbeddingIds, snapshotCounter, passes, snaps>>
  /\ UNCHANGED otherP

NextErr ==
  \/ NextTick
  \/ ProcessDeltaQueryThrows

SpecErr == InitErr /\ [][NextErr]_vars

SpecErrFair ==
  /\ SpecErr
  /\ WF_vars(DebounceFire)
  /\ WF_vars(PassResumeStep)
  /\ WF_vars(PassSnapshotDoneStep)
  /\ WF_vars(SnapRenameStep)
  /\ WF_vars(SnapPersistStep)
  /\ WF_vars(SnapGcStep)
  /\ WF_vars(SnapRollbackStep)

\* a pass has recorded a key whose add failed
AddHasFailed == \E k \in knownEmbeddingIds : ~Has(engine.noteIdToHnswId, k)

\* a threshold snapshot of a pass has failed and is in its rollback
RollingBack == \E p \in PassIds : snaps[SlotOf(p)].pc = "rollback"

\* the flag is held, or a tick has not been answered by a pass yet, or a
\* failed snapshot is rolling back
Unsettled == isProcessing \/ hist.owed \/ RollingBack

\* C23: the orchestrator survives errors - whatever fails inside a pass (row
\* query, add, threshold snapshot), a state follows in which isProcessing is
\* released, every tick that arrived has been followed by the start of a
\* pass, and no failed snapshot is left in its rollback.
C23_SurvivesErrors == Unsettled ~> ~Unsettled

\* after a failed add, a tick has been followed by a pass and all is idle
C23_Witness ==
  /\ AddHasFailed /\ hist.threw
  /\ hist.served /\ ~hist.owed /\ ~isProcessing /\ PassesIdle

(***************************************************************************)
(* Searches and index changes on one engine, evictions observed.           *)
(***************************************************************************)
InitCache ==
  /\ FreshEngine
  /\ FreshOrchestrator
  /\ hist = Watch("caches")
  /\ dir = EmptyMap
  /\ embeddingsTable = EmptyMap
  /\ notesTable = {}

NextCache ==
  \/ Initialize
  \/ AddPointCall
  \/ AddPointResume
  \/ SearchCall
  \/ SearchStart
  \/ SearchEmbedded
  \/ SearchReturn

SpecCache == InitCache /\ [][NextCache]_vars

\* C24: bounded caches - queryCache and resultsCache never hold more than
\* cacheSize entries, in particular after every search call has returned.
C24_BoundedCaches ==
  /\ Len(engine.queryCache) <= cacheSize
  /\ Len(engine.resultsCache) <= cacheSize

\* a computed search has returned after an eviction, both caches full
C24_Witness ==
  /\ hist.evicted
  /\ search.pc = "done" /\ search.src = "index"
  /\ Len(engine.queryCache) = cacheSize
  /\ Len(engine.resultsCache) = cacheSize

(***************************************************************************)
(* Reconciliation passes next to a client of the service that indexes a    *)
(* stored row itself through addPointToIndex.                              *)
(***************************************************************************)
InitUpsert ==
  /\ engine = EngineInitialize(NewEngine, TRUE)
  /\ search = IdleSearch
  /\ adder = IdleAdder
  /\ FreshOrchestrator_Running
  /\ hist = Watch("none")
  /\ dir = EmptyMap
  /\ embeddingsTable \in {t \in StoreTables : DOMAIN t = Keys /\ \A k \in Keys : t[k].content = 1}
  /\ notesTable \in {Keys, {"a"}}

\* semanticSearchService.addPointToIndex(row) called by a client, to its await
ClientAddPoint == AddPointOf({embeddingsTable[k] : k \in DOMAIN embeddingsTable})

NextUpsert ==
  \/ NextTick
  \/ ClientAddPoint
  \/ AddPointResume

SpecUpsert == InitUpsert /\ [][NextUpsert]_vars

\* pass p calls addPointToIndex in this step and the engine takes the call
StartsAdd(p) ==
  /\ passes'[p].pc = "adding"
  /\ passes'[p] # passes[p]
  /\ ~Has(passes'[p].pend, "skipped")

\* pass p calls removePointFromIndex in this step
StartsRemove(p) ==
  /\ passes'[p] # passes[p]
  /\ knownEmbeddingIds \ knownEmbeddingIds' # {}

\* C25: upserts before removals - a pass that has called
\* removePointFromIndex calls addPointToIndex no more, and a key that is
\* live in the index when a pass starts to add it again stays live (and so
\* in the results of a search for its vector) while the add is awaited.
C25_UpsertsBeforeRemovals ==
  [][\A p \in PassIds :
       /\ StartsRemove(p) => passes'[p].pc \in {"snapshot", "idle"}
       /\ StartsAdd(p) =>
            (LiveIds(engine, passes'[p].pend.noteId) # {}
               => LiveIds(engine', passes'[p].pend.noteId) # {})]_vars

(***************************************************************************)
(* The change counter: passes, periodic and manual snapshots, the add and  *)
(* remove calls of the passes counted.                                     *)
(***************************************************************************)
InitCount ==
  /\ engine = EngineInitialize(NewEngine, TRUE)
  /\ search = IdleSearch
  /\ adder = IdleAdder
  /\ FreshOrchestrator_Running
  /\ hist = Watch("counter")
  /\ dir = EmptyMap
  /\ embeddingsTable \in {t \in StoreTables : DOMAIN t = Keys /\ \A k \in Keys : t[k].content = 1}
  /\ notesTable \in {Keys, {"a"}}

SpecCount == InitCount /\ [][NextIso]_vars

\* the awaited persistGraph('latest') of a snapshot resolves in this step
PersistSucceeds == \E s \in SnapIds : snaps[s].pc = "persist" /\ snaps'[s].pc = "gc"

\* the awaited persistGraph('latest') of a snapshot rejects in this step
PersistFails == \E s \in SnapIds : snaps[s].pc = "persist" /\ snaps'[s].pc = "rollback"

\* C26: change counter discipline - snapshotCounter goes to 0 exactly in the
\* steps where persistGraph('latest') succeeds, a failed persist leaves it as
\* it was, and whenever no pass is running it equals the number of add and
\* remove calls that passes have made since the last successful persist.
C26_CounterDiscipline ==
  [][/\ PersistSucceeds => snapshotCounter' = 0
     /\ (snapshotCounter # 0 /\ snapshotCounter' = 0) => PersistSucceeds
     /\ PersistFails => snapshotCounter' = snapshotCounter
     /\ PassesIdle' => snapshotCounter' = hist'.calls]_vars

\* the last call was a renameFile that found its directory and its source
RenamedExisting ==
  hist.io.op = "renameFile" /\ hist.io.dirExists /\ Has(hist.io.pre, hist.io.name)

\* C27: atomic rename - however renameFile(old, new) ends, at whatever step
\* it fails, the directory is in one of two states: old holds its original
\* content and new is as it was before the call, or new holds old's
\* original content and old is absent.
C27_AtomicRename ==
  RenamedExisting =>
    LET pre == hist.io.pre
        old == hist.io.name
        new == hist.renamedTo
    IN \/ /\ Has(dir, old) /\ dir[old] = pre[old]
          /\ Has(dir, new) <=> Has(pre, new)
          /\ Has(pre, new) => dir[new] = pre[new]
       \/ /\ ~Has(dir, old)
          /\ Has(dir, new) /\ dir[new] = pre[old]

(***************************************************************************)
(* initialize over every kind of 'latest': none, a good one, one of another *)
(* version, one that does not parse, one that holds an empty graph.        *)
(***************************************************************************)
FallbackDirs ==
  BootDirs \cup {"latest" :> EmptyFile, "latest" :> serializeGraph(EmptyMap)}

InitFallback ==
  /\ FreshEngine
  /\ FreshOrchestrator
  /\ hist = Watch("none")
  /\ dir \in FallbackDirs
  /\ embeddingsTable \in {t \in StoreTables : \A k \in DOMAIN t : t[k].content = 1}
  /\ notesTable \in SUBSET Keys

SpecFallback == InitFallback /\ [][NextBoot]_vars

\* 'latest' parses and holds a graph with at least one node
LatestUsable ==
  Has(dir, "latest") /\ dir["latest"] # EmptyFile /\ DOMAIN dir["latest"].nodes # {}

\* the awaited load of initialize is over in this step
LoadReturns == boot.pc = "load" /\ boot' # boot

\* initialize returns in this step
InitializeReturns == boot.pc # "idle" /\ boot.kind = "initialize" /\ boot'.pc = "idle"

Sequencing == {s \in SnapIds : InSequence(s)}

\* C29: overlapping snapshot triggers coalesce - whatever the interleaving
\* of timer, threshold and manual triggers, at most one triggerSnapshot is
\* between the start of its rename and the end of its persist or rollback.
C29_SnapshotsCoalesce == Cardinality(Sequencing) <= 1

(***************************************************************************)
(* Bursts of ticks: the timers they set, the passes the timers start.      *)
(***************************************************************************)
InitDebounce ==
  /\ engine = EngineInitialize(NewEngine, TRUE)
  /\ search = IdleSearch
  /\ adder = IdleAdder
  /\ FreshOrchestrator_Running
  /\ hist = Watch("debounce")
  /\ dir = EmptyMap
  /\ embeddingsTable \in {t \in StoreTables : \A k \in DOMAIN t : t[k].content = 1}
  /\ notesTable \in SUBSET Keys

SpecDebounce == InitDebounce /\ [][NextTick]_vars

\* C30: debounce coalescing - the ticks that arrive while no pass is in
\* progress and before the debounce timer fires are answered by one pass:
\* no pass reads the row store when no tick has arrived since the pass
\* before it read the store.
C30_DebounceCoalescing == ~hist.again

(***************************************************************************)
(* The caches of an engine built with { cacheSize: LruSize }, under a      *)
(* caller that awaits each search before the next: hits, misses and the    *)
(* entries they evict.                                                     *)
(***************************************************************************)
LruSize == 2

LruQueries == {"q1", "q2", "q3"}

\* set, then delete the first key when the size exceeds the configured size
CachePutAt(size, c, k, v) ==
  LET c1 == CacheSet(c, k, v)
  IN IF Len(c1) > size THEN Tail(c1) ELSE c1

\* the keys by last use, least recent first, after key k is read or written
Touch(order, k) == Append(SelectSeq(order, LAMBDA x : x # k), k)

\* one cache after key k is read (cached) or written (not cached), with the
\* key it evicted and the key that was least recently used then
Access(size, order, k) ==
  IF \E i \in 1..Len(order) : order[i] = k
  THEN [order |-> Touch(order, k), full |-> FALSE]
  ELSE [order |-> Touch(order, k), full |-> Len(order) + 1 > size]

\* search(query, limit) from call to return: both caches and what it returns
LruSearch ==
  \E q \in LruQueries, limit \in 1..MaxK :
    IF CacheHas(engine.resultsCache, q)
    THEN /\ engine' = engine
         /\ hist' = [hist EXCEPT !.lru.r = Touch(@, q)]
    ELSE LET hitQ == CacheHas(engine.queryCache, q)
             queryVector == IF hitQ THEN CacheGet(engine.queryCache, q)
                            ELSE l2Normalize(Embed(q))
             qc == IF hitQ THEN engine.queryCache
                   ELSE CachePutAt(LruSize, engine.queryCache, q, queryVector)
             sortedResults == ComputeResults(engine, queryVector, limit)
             rc == CachePutAt(LruSize, engine.resultsCache, q, sortedResults)
             aq == Access(LruSize, hist.lru.q, q)
             ar == Access(LruSize, hist.lru.r, q)
             goneQ == IF aq.full THEN engine.queryCache[1][1] ELSE hist.lru.outQ
             goneR == IF ar.full THEN engine.resultsCache[1][1] ELSE hist.lru.outR
         IN /\ engine' = [engine EXCEPT !.queryCache = qc, !.resultsCache = rc]
            /\ hist' = [hist EXCEPT
                  !.lru = [q    |-> SelectSeq(aq.order, LAMBDA x : ~aq.full \/ x # goneQ),
                           r    |-> SelectSeq(ar.order, LAMBDA x : ~ar.full \/ x # goneR),
                           outQ |-> goneQ,
                           dueQ |-> IF aq.full THEN Head(hist.lru.q) ELSE hist.lru.dueQ,
                           outR |-> goneR,
                           dueR |-> IF ar.full THEN Head(hist.lru.r) ELSE hist.lru.dueR]]

InitLru ==
  /\ engine = addPointAwaited(
                addPointAwaited(EngineInitialize(NewEngine, TRUE),
                                [noteId |-> "a", content |-> 1, vecData |-> <<100, 0>>]),
                [noteId |-> "b", content |-> 1, vecData |-> <<30, 40>>])
  /\ search = IdleSearch
  /\ adder = IdleAdder
  /\ FreshOrchestrator
  /\ hist = Watch("lru")
  /\ dir = EmptyMap
  /\ embeddingsTable = EmptyMap
  /\ notesTable = {}

NextLru ==
  /\ LruSearch
  /\ UNCHANGED <<search, adder, dir, embeddingsTable, notesTable,
                 store, subscribed, knownEmbeddingIds, snapshotCounter,
                 isProcessing, pendingDeltas, snapshotInterval,
                 timers, ticks, passes, snaps, boot>>

SpecLru == InitLru /\ [][NextLru]_vars

\* C31: LRU eviction - the entry that an insert evicts from queryCache or
\* from resultsCache is the one least recently read or written.
C31_LruEviction ==
  /\ hist.lru.outQ = hist.lru.dueQ
  /\ hist.lru.outR = hist.lru.dueR

\* the candidates that survive the tombstone filter in the first graph
\* search of a search for k results with query vector qv
FirstSurvivors(E, qv, k) ==
  DropTombstoned(searchKNN(E.hnswIndex, qv, 5 * k), E.tombstones)

\* C32: adaptive retry - a search for k results that reaches the graph
\* issues its second graph search if and only if the top surviving score of
\* the first is below 0.65 or fewer than k candidates survive the filter,
\* none surviving included.
C32_AdaptiveRetry ==
  [][(SearchAnswers /\ search'.src = "index") =>
       LET qv == l2Normalize(Embed(Trim(search.query)))
           k == search.limit
           first == FirstSurvivors(engine, qv, k)
       IN lowRecall(first, k * 5)
            <=> (first = <<>> \/ first[1].score < LowScore \/ Len(first) < k)]_vars

(***************************************************************************)
(* An engine that holds a note and chunks of notes, and its searches.      *)
(***************************************************************************)
\* the embedding of each chunk's text
ChunkVec(chunkId) == IF chunkId = "a:0" THEN <<100, 0>> ELSE <<30, 40>>

\* the chunker's call: addChunkPoint(chunkId, vector, metadata)
AddChunk ==
  /\ AddChunkPointOf(ChunkKeys)
  /\ adder'.pend.metadata
  /\ adder'.pend.vector = l2Normalize(ChunkVec(adder'.pend.noteId))

NextChunks ==
  \/ AddChunk
  \/ AddChunkPointResume
  \/ SearchCall
  \/ SearchStart
  \/ SearchEmbedded
  \/ SearchReturn

InitChunks ==
  /\ engine = EngineInitialize(NewEngine, TRUE)
  /\ search = IdleSearch
  /\ adder = IdleAdder
  /\ FreshOrchestrator
  /\ hist = Watch("none")
  /\ dir = EmptyMap
  /\ embeddingsTable = EmptyMap
  /\ notesTable = {}

SpecChunks == InitChunks /\ [][NextChunks]_vars

\* the graph nodes that reach the fusion: not tombstoned, mapped to a key
\* that has metadata
Candidates(E) ==
  {i \in DOMAIN E.hnswIndex \ E.tombstones :
     Has(E.hnswIdToNoteId, i) /\ Has(E.embeddings, E.hnswIdToNoteId[i])}

\* the fused score of candidate i for query vector qv
Fused(E, i, qv) ==
  (alpha * exactCosine(qv, E.embeddings[E.hnswIdToNoteId[i]].embedding)) \div Scale

\* the candidates whose key is parent p or a chunk of p
OfParent(E, p) == {i \in Candidates(E) : parseNodeId(E.hnswIdToNoteId[i]).parentId = p}

\* the list: at most k entries, by non-increasing score, one per parent id
Ranked(rs, k) ==
  /\ Len(rs) <= k
  /\ \A i, j \in 1..Len(rs) : i < j => rs[i].score >= rs[j].score
  /\ \A i, j \in 1..Len(rs) : rs[i].noteId = rs[j].noteId => i = j
  /\ \A i \in 1..Len(rs) : rs[i].noteId \notin ChunkKeys

\* C33: parent dedup and ranking - the list a search returns has at most k
\* entries, is sorted by non-increasing score and has one entry per parent
\* id; when it is computed from the index, each entry's score is the
\* maximum fused score over the candidates of that parent.
C33_ParentDedupRanking ==
  [][SearchAnswers =>
       /\ Ranked(search'.result, search.limit)
       /\ search'.src = "index" =>
            LET qv == l2Normalize(Embed(Trim(search.query))) IN
            \A n \in 1..Len(search'.result) :
               LET p == search'.result[n].noteId IN
               /\ OfParent(engine, p) # {}
               /\ \A i \in OfParent(engine, p) : Fused(engine, i, qv) <= search'.result[n].score
               /\ \E i \in OfParent(engine, p) : Fused(engine, i, qv) = search'.result[n].score]_vars

\* a computed search has returned one entry for a parent that has two
\* candidates with different scores, the index as the search read it
C33_Witness ==
  LET qv == l2Normalize(Embed(Trim(search.query))) IN
  /\ search.pc = "done" /\ search.src = "index"
  /\ adder.pc = "idle"
  /\ search.result = ComputeResults(engine, qv, search.limit)
  /\ \E n \in 1..Len(search.result) :
       \E i, j \in OfParent(engine, search.result[n].noteId) :
          Fused(engine, i, qv) < Fused(engine, j, qv)

(***************************************************************************)
(* Searches with varying limits on an index that nothing mutates.          *)
(***************************************************************************)
InitQuery ==
  /\ \E va, vb \in Vecs :
       engine = addPointAwaited(
                  addPointAwaited(EngineInitialize(NewEngine, TRUE),
                                  [noteId |-> "a", content |-> 1, vecData |-> va]),
                  [noteId |-> "b", content |-> 1, vecData |-> vb])
  /\ search = IdleSearch
  /\ adder = IdleAdder
  /\ FreshOrchestrator
  /\ hist = Watch("none")
  /\ dir = EmptyMap
  /\ embeddingsTable = EmptyMap
  /\ notesTable = {}

NextQuery ==
  \/ SearchCall
  \/ SearchStart
  \/ SearchEmbedded
  \/ SearchReturn

SpecQuery == InitQuery /\ [][NextQuery]_vars

\* what search(query, limit) returns on engine E with caching disabled
Uncached(E, query, limit) ==
  ComputeResults(E, l2Normalize(Embed(Trim(query))), limit)

\* C34: cache transparency - with no mutation in between, a search(q, k)
\* answered from the results cache returns the list that an engine with
\* caching disabled returns for (q, k), whatever k populated the entry.
C34_CacheTransparency ==
  [][(SearchAnswers /\ search'.src = "cache") =>
       search'.result = Uncached(engine, search.query, search.limit)]_vars

(***************************************************************************)
(* The threshold snapshot of a pass.                                       *)
(***************************************************************************)
\* a processDelta call reaches its finally block in this step without having
\* called triggerSnapshot: from the add loop, or in one stretch from its start
PassEndsWithoutSnapshot ==
  \/ \E p \in PassIds : passes[p].pc = "adding" /\ passes'[p].pc = "idle"
  \/ /\ ~isProcessing
     /\ passes' = passes
     /\ DebounceFire \/ ProcessDeltaQueryThrows

\* a pass calls triggerSnapshot('changes_threshold') in this step
ThresholdSnapshotBegins ==
  \E p \in PassIds : passes[p].pc # "snapshot" /\ passes'[p].pc = "snapshot"

\* the threshold snapshot of a pass has persisted 'latest' and not returned
ThresholdSnapshotPersisted ==
  \E p \in PassIds : passes[p].pc = "snapshot" /\ snaps[SlotOf(p)].pc = "gc"

\* a processDelta call whose queries did not throw reaches its finally block
\* in this step without having called triggerSnapshot
PassCompletesWithoutSnapshot ==
  \/ \E p \in PassIds : passes[p].pc = "adding" /\ passes'[p].pc = "idle"
  \/ /\ ~isProcessing
     /\ passes' = passes
     /\ DebounceFire

RemoveFrame(E, k) ==
  LET R == removePoint(E, k) IN
  /\ R.noteIdToHnswId = E.noteIdToHnswId
  /\ R.hnswIdToNoteId = E.hnswIdToNoteId
  /\ R.embeddings = E.embeddings
  /\ getEmbeddingCount(R) = getEmbeddingCount(E)
  /\ R.nextHnswId = E.nextHnswId
  /\ R.hnswIndex = E.hnswIndex
  /\ R.isReady = E.isReady
  /\ R.queryCache \in {E.queryCache, <<>>}
  /\ R.resultsCache \in {E.resultsCache, <<>>}
  /\ R.tombstones = IF Has(E.noteIdToHnswId, k)
                    THEN E.tombstones \cup {E.noteIdToHnswId[k]}
                    ELSE E.tombstones
  /\ ~Has(E.noteIdToHnswId, k) => R = E
  /\ removePoint(R, k) = R

\* clients that add, replace and remove points
NextRemove ==
  \/ Initialize
  \/ AddPointCall
  \/ AddPointResume
  \/ RemovePointCall

SpecRemove == InitEngine /\ [][NextRemove]_vars

\* C36: removePoint frame - removePoint(key) adds the current internal id of
\* the key to the tombstone set and changes neither id map, the embeddings
\* map, getEmbeddingCount, nextHnswId nor the graph; for an unmapped key it
\* changes nothing, and a second call changes nothing more.
C36_RemovePointFrame == \A k \in Keys : RemoveFrame(engine, k)

\* removePoint has tombstoned the one id handed out so far, its key is still
\* in the maps, and another key is not mapped
C36_Witness ==
  /\ adder.pc = "idle"
  /\ engine.nextHnswId = 1
  /\ \E k \in Keys : Tombstoned(engine, k) /\ Has(engine.embeddings, k)
  /\ \E k \in Keys : ~Has(engine.noteIdToHnswId, k)

(***************************************************************************)
(* A pass over a row store that the previous pass has already read.        *)
(***************************************************************************)
\* a processDelta call starts in this step, the row store as the last
\* completed pass read it and no other pass running
PassOverSyncedStore ==
  /\ hist.synced
  /\ PassesIdle
  /\ ~isProcessing
  /\ DebounceFire

\* C37: reconciliation fixpoint - a pass over a row store that has not
\* changed since the previous completed pass read it makes no add and no
\* remove call, leaves knownEmbeddingIds and snapshotCounter as they were
\* and starts no threshold snapshot, orphaned rows or not.
C37_ReconciliationFixpoint ==
  [][PassOverSyncedStore =>
       /\ engine' = engine
       /\ passes' = passes
       /\ knownEmbeddingIds' = knownEmbeddingIds
       /\ snapshotCounter' = snapshotCounter
       /\ snaps' = snaps]_vars

(***************************************************************************)
(* The internal ids handed to the graph insert.                            *)
(***************************************************************************)
\* the internal ids of the addPoint calls that are awaiting their insert
PendingIds ==
  {adder.pend.newId : x \in {y \in {1} : adder.pc \in {"insert", "insertChunk"}}}
    \cup {passes[p].pend.newId :
            p \in {q \in PassIds : passes[q].pc = "adding" /\ ~Has(passes[q].pend, "skipped")}}
    \cup {boot.pend.newId :
            x \in {y \in {1} : boot.pc = "adding" /\ ~Has(boot.pend, "skipped")}}

\* the snapshot of a session in which key a was added and then replaced:
\* node 0 holds the old vector, node 1 the new one
ReplacedGraph == serializeGraph((0 :> <<100, 0>>) @@ (1 :> <<60, 80>>))

InitWarm ==
  /\ FreshEngine
  /\ FreshOrchestrator
  /\ hist = Watch("none")
  /\ dir = "latest" :> ReplacedGraph
  /\ embeddingsTable \in {t \in StoreTables : DOMAIN t = {"a"} /\ t["a"].content = 1}
  /\ notesTable = Keys

\* a warm boot, then writes to the row store and delta passes
NextWarm ==
  \/ Initialize
  \/ InitializeCall
  \/ BootLoaded
  \/ UpsertEmbedding
  \/ Tick
  \/ DebounceFire
  \/ PassResumeStep

SpecWarm == InitWarm /\ [][NextWarm]_vars

\* C38: fresh internal ids - an internal id that addPoint is passing to the
\* graph insert is not in the graph, and nextHnswId is greater than every
\* node id of the graph, after a warm boot over a loaded snapshot too.
C38_FreshInternalIds ==
  /\ \A i \in PendingIds : ~Has(engine.hnswIndex, i)
  /\ \A i \in DOMAIN engine.hnswIndex : i < engine.nextHnswId

(***************************************************************************)
(* HnswSyncOrchestrator: the orchestrator that syncs in one synchronous    *)
(* stretch.  Its knownEmbeddingIds is the variable of that name, its       *)
(* knownEmbeddingHashes is hist.hashes.                                    *)
(***************************************************************************)
\* createEmbeddingHash: title, content, updatedAt and model; not the vector
createEmbeddingHash(embedding) == embedding.content

\* semanticSearchService.addPointToIndex, not awaited: the engine once the
\* insert has resolved
SyncAdd(E, row) ==
  LET b == addPointToIndexBegin(E, row) IN addPointToIndexEnd(b.engine, b.pend, TRUE)

\* the loop of performFullSync over the rows read
RECURSIVE FullSyncLoop(_, _, _, _)
FullSyncLoop(E, known, hashes, rows) ==
  IF rows = <<>> THEN [engine |-> E, known |-> known, hashes |-> hashes]
  ELSE LET embedding == Head(rows) IN
       FullSyncLoop(SyncAdd(E, embedding), known \cup {embedding.noteId},
                    MapSet(hashes, embedding.noteId, createEmbeddingHash(embedding)),
                    Tail(rows))

performFullSync(E, rows) == FullSyncLoop(E, {}, EmptyMap, rows)

\* the first loop of performDeltaSync: new and updated rows
RECURSIVE DeltaAddLoop(_, _, _, _, _)
DeltaAddLoop(E, known, knownHashes, currentHashes, rows) ==
  IF rows = <<>> THEN [engine |-> E, known |-> known, currentHashes |-> currentHashes]
  ELSE LET embedding == Head(rows)
           currentHash == createEmbeddingHash(embedding)
           changed == \/ embedding.noteId \notin known
                      \/ ~Has(knownHashes, embedding.noteId)
                      \/ knownHashes[embedding.noteId] # currentHash
       IN DeltaAddLoop(IF changed THEN SyncAdd(E, embedding) ELSE E,
                       IF changed THEN known \cup {embedding.noteId} ELSE known,
                       knownHashes,
                       MapSet(currentHashes, embedding.noteId, currentHash),
                       Tail(rows))

\* the second loop of performDeltaSync: removePointFromIndex for each id
RECURSIVE DeltaRemoveLoop(_, _)
DeltaRemoveLoop(E, removedIds) ==
  IF removedIds = {} THEN E
  ELSE LET noteId == CHOOSE x \in removedIds : TRUE
       IN DeltaRemoveLoop(removePointFromIndex(E, noteId), removedIds \ {noteId})

\* a delta sync that leaves knownEmbeddingHashes as it was
performDeltaSync_KeepsHashes(E, known, knownHashes, rows) ==
  LET a == DeltaAddLoop(E, known, knownHashes, EmptyMap, rows)
      currentIds == {rows[i].noteId : i \in 1..Len(rows)}
      removedIds == a.known \ currentIds
  IN [engine |-> DeltaRemoveLoop(a.engine, removedIds),
      known  |-> a.known \ removedIds,
      hashes |-> knownHashes]

performDeltaSync(E, known, knownHashes, rows) ==
  LET a == DeltaAddLoop(E, known, knownHashes, EmptyMap, rows)
      currentIds == {rows[i].noteId : i \in 1..Len(rows)}
      removedIds == a.known \ currentIds
  IN [engine |-> DeltaRemoveLoop(a.engine, removedIds),
      known  |-> a.known \ removedIds,
      hashes |-> a.currentHashes]

otherY == <<search, adder, dir, embeddingsTable, notesTable, snapshotCounter,
            isProcessing, pendingDeltas, passes, snaps, boot>>

\* initialize(store): full sync, subscribe, start the snapshot interval
SyncInitialize ==
  /\ ~store
  /\ hist.boots < MaxBoots
  /\ store' = TRUE
  /\ LET r == performFullSync(engine, selectEmbeddings(embeddingsTable)) IN
       /\ engine' = r.engine
       /\ knownEmbeddingIds' = r.known
       /\ hist' = [hist EXCEPT !.hashes = r.hashes, !.boots = @ + 1]
  /\ subscribed' = TRUE
  /\ snapshotInterval' = TRUE
  /\ UNCHANGED <<timers, ticks, otherY>>

\* the subscription callback: setTimeout(() => this.performDeltaSync(), 100)
SyncTick ==
  /\ subscribed
  /\ ticks < MaxTicks
  /\ ticks' = ticks + 1
  /\ timers' = timers + 1
  /\ UNCHANGED <<engine, store, subscribed, snapshotInterval, knownEmbeddingIds,
                 hist, otherY>>

\* a timeout fires (or forceSync is called): performDeltaSync
SyncTimerFires ==
  /\ timers > 0
  /\ timers' = timers - 1
  /\ IF store
     THEN LET r == performDeltaSync(engine, knownEmbeddingIds, hist.hashes,
                                    selectEmbeddings(embeddingsTable)) IN
          /\ engine' = r.engine
          /\ knownEmbeddingIds' = r.known
          /\ hist' = [hist EXCEPT !.hashes = r.hashes]
     ELSE UNCHANGED <<engine, knownEmbeddingIds, hist>>
  /\ UNCHANGED <<store, subscribed, snapshotInterval, ticks, otherY>>

\* shutdown: unsubscribe, clear the interval, the store and both mirrors
SyncShutdown ==
  /\ store
  /\ store' = FALSE
  /\ subscribed' = FALSE
  /\ snapshotInterval' = FALSE
  /\ knownEmbeddingIds' = {}
  /\ hist' = [hist EXCEPT !.hashes = EmptyMap]
  /\ UNCHANGED <<engine, timers, ticks, otherY>>

InitSync ==
  /\ FreshEngine
  /\ FreshOrchestrator
  /\ hist = Watch("none")
  /\ dir = EmptyMap
  /\ embeddingsTable \in {t \in StoreTables : \A k \in DOMAIN t : t[k].content = 1}
  /\ notesTable = Keys

NextSync ==
  \/ Initialize
  \/ SyncInitialize
  \/ UpsertEmbedding
  \/ DeleteEmbedding
  \/ SyncTick
  \/ SyncTimerFires
  \/ SyncShutdown

SpecSync == InitSync /\ [][NextSync]_vars

\* a performFullSync or a performDeltaSync that reads the rows runs in this step
SyncCompletes == SyncInitialize \/ (store /\ SyncTimerFires)

\* C39: mirror invariant of HnswSyncOrchestrator - after every completed
\* performFullSync or performDeltaSync, knownEmbeddingIds is the set of
\* noteIds of the rows that sync read, and so is the domain of
\* knownEmbeddingHashes.
C39_MirrorInvariant ==
  [][SyncCompletes =>
       /\ knownEmbeddingIds' = DOMAIN embeddingsTable
       /\ DOMAIN hist'.hashes = DOMAIN embeddingsTable]_vars

\* delta syncs have run after writes, one of them replaced or removed a
\* point, and the mirrors hold the keys of the rows
C39_Witness ==
  /\ store
  /\ hist.writes >= 2
  /\ timers < ticks
  /\ engine.tombstones # {}
  /\ knownEmbeddingIds = DOMAIN embeddingsTable
  /\ DOMAIN hist.hashes = DOMAIN embeddingsTable
  /\ knownEmbeddingIds # {}

(***************************************************************************)
(* The lexical index (quantum/): IndexStore, written by Indexer.index,     *)
(* removeDocument and clear.  The store is hist.indexStore; a document is  *)
(* the list of its sentences, each a list of normalized tokens, as         *)
(* TextProcessor.processDocument returns it.                               *)
(***************************************************************************)
\* config.maxSegments, 21 by default
maxSegments == 21

DocIds == {"d1", "d2"}

\* the documents indexed: sentences of tokens
Documents ==
  { << <<"x", "y">> >>,
    << <<"y">> >>,
    << <<"x">>, <<"z", "x">> >> }

NewIndexStore == NoHist.indexStore

RECURSIVE TotalTokens(_)
TotalTokens(sentences) ==
  IF sentences = <<>> THEN 0 ELSE Len(Head(sentences)) + TotalTokens(Tail(sentences))

\* the inner loop of Indexer.index: the tokens of one sentence
RECURSIVE IndexTokens(_, _, _, _, _)
IndexTokens(inv, meta, docId, tokens, bitIndex) ==
  IF tokens = <<>> THEN [inv |-> inv, meta |-> meta]
  ELSE LET token == Head(tokens)
           inv1 == MapSet(inv, token,
                          (IF Has(inv, token) THEN inv[token] ELSE {}) \cup {docId})
           old == IF Has(meta, token) THEN meta[token] ELSE [freq |-> 0, segmentMask |-> {}]
           meta1 == MapSet(meta, token, [freq |-> old.freq + 1,
                                         segmentMask |-> old.segmentMask \cup {bitIndex}])
       IN IndexTokens(inv1, meta1, docId, Tail(tokens), bitIndex)

\* the outer loop of Indexer.index: the sentences, segmentMask as its set of bits
RECURSIVE IndexSentences(_, _, _, _, _)
IndexSentences(inv, meta, docId, sentences, segmentIndex) ==
  IF sentences = <<>> THEN [inv |-> inv, meta |-> meta]
  ELSE LET tokensInSentence == Head(sentences)
           bitIndex == IF segmentIndex < maxSegments - 1 THEN segmentIndex
                       ELSE maxSegments - 1
           r == IndexTokens(inv, meta, docId, tokensInSentence, bitIndex)
       IN IndexSentences(r.inv, r.meta, docId, Tail(sentences),
                         IF Len(tokensInSentence) > 1 THEN segmentIndex + 1
                         ELSE segmentIndex)

\* Indexer.index(docId, content) after `await processDocument`
IndexerIndex(S, docId, sentences) ==
  LET r == IndexSentences(S.invertedIndex, EmptyMap, docId, sentences, 0) IN
  [invertedIndex    |-> r.inv,
   docTokenMetadata |-> MapSet(S.docTokenMetadata, docId, r.meta),
   docStore         |-> MapSet(S.docStore, docId,
                               [originalContent |-> sentences,
                                tokenCount |-> TotalTokens(sentences)])]

\* IndexStore.removeDocument: the postings of the tokens in the document's
\* metadata, a posting set that gets empty is deleted
removeDocument(S, docId) ==
  LET tokens == IF Has(S.docTokenMetadata, docId)
                THEN DOMAIN S.docTokenMetadata[docId] ELSE {}
      kept == {t \in DOMAIN S.invertedIndex :
                 ~(t \in tokens /\ S.invertedIndex[t] \ {docId} = {})}
  IN [invertedIndex    |-> [t \in kept |-> IF t \in tokens
                                            THEN S.invertedIndex[t] \ {docId}
                                            ELSE S.invertedIndex[t]],
      docTokenMetadata |-> MapDelete(S.docTokenMetadata, docId),
      docStore         |-> MapDelete(S.docStore, docId)]

otherL == <<engine, search, adder, dir, embeddingsTable, notesTable,
            store, subscribed, knownEmbeddingIds, snapshotCounter,
            isProcessing, pendingDeltas, snapshotInterval,
            timers, ticks, passes, snaps, boot>>

\* QuantumProximitySearch.indexDocument(content, docId)
IndexDocument ==
  /\ \E docId \in DocIds, content \in Documents :
       hist' = [hist EXCEPT !.indexStore = IndexerIndex(@, docId, content)]
  /\ UNCHANGED otherL

\* QuantumProximitySearch.removeDocument(docId)
RemoveDocument ==
  /\ \E docId \in DocIds :
       hist' = [hist EXCEPT !.indexStore = removeDocument(@, docId)]
  /\ UNCHANGED otherL

\* QuantumProximitySearch.clear
ClearIndexStore ==
  /\ hist' = [hist EXCEPT !.indexStore = NewIndexStore]
  /\ UNCHANGED otherL

InitLexical ==
  /\ FreshEngine
  /\ FreshOrchestrator
  /\ hist = Watch("none")
  /\ dir = EmptyMap
  /\ embeddingsTable = EmptyMap
  /\ notesTable = {}

NextLexical ==
  \/ IndexDocument
  \/ RemoveDocument
  \/ ClearIndexStore

SpecLexical == InitLexical /\ [][NextLexical]_vars

\* every posting of store S names a stored document whose metadata has the token
PostingsBacked(S) ==
  \A t \in DOMAIN S.invertedIndex :
    \A d \in S.invertedIndex[t] :
      /\ Has(S.docStore, d)
      /\ Has(S.docTokenMetadata, d)
      /\ Has(S.docTokenMetadata[d], t)

\* no posting set of store S contains document d, and none is empty
Purged(S, d) ==
  \A t \in DOMAIN S.invertedIndex :
    d \notin S.invertedIndex[t] /\ S.invertedIndex[t] # {}

\* C40: lexical index consistency - in every reachable IndexStore state each
\* posting names a stored document whose token metadata has the token, and
\* after removeDocument(d) no posting set contains d and none is empty.
C40_LexicalIndexConsistency ==
  /\ PostingsBacked(hist.indexStore)
  /\ \A d \in DocIds : Purged(removeDocument(hist.indexStore, d), d)

====
